---- MODULE Spec2Model ----
(***************************************************************************)
(* A model of MapKernel (packages/dds/map/src/mapKernel.ts): the store,    *)
(* the pending tables, the id counter and the attribution map, driven by   *)
(* local calls, the sequenced stream, rollback, resubmit and stashed ops.  *)
(***************************************************************************)
EXTENDS Integers, Sequences, FiniteSets, TLC

\* ---------------------------------------------------------------- bounds
Keys == {"a", "b"}
Values == {1, 2}
MaxOps == 4         \* ids issued plus remote ops sequenced
MaxKey == 4         \* the largest key of a RangeMap call

\* JavaScript `undefined`: what Map.get returns for a missing key, and what a
\* slot of the store holds when `undefined` was stored in it.
UNDEF == 0

\* The value of a set op whose ISerializableValue has a type that is neither
\* Plain nor Shared; every other value of an op is of type Plain
UnknownKindValue == 9

\* JavaScript `null` and `undefined` passed where a key is expected
NullKey == "<null>"

UndefinedKey == "<undefined>"

\* The keys a caller passes to set and delete: a name, the empty string,
\* null and undefined
ApiKeys == {"a", "", NullKey, UndefinedKey}

\* The keys of a store that is serialized: a name and two array-index names
SnapshotKeys == {"a", "1", "2"}

VARIABLES
    data,                    \* Map<string, ILocalValue>, in insertion order
    pendingKeys,             \* Map<string, number[]>, in insertion order
    pendingMessageId,        \* the id counter
    pendingClearMessageIds,  \* number[]
    attribution,             \* Map<string, AttributionKey>: key -> seq (0: none)
    attached,                \* what isAttached() returns
    track,                   \* options.attribution.track (off in Init)
    submitted,               \* ops handed to submitMessage, not yet sequenced
    sequenceNumber,          \* sequence number of the last sequenced message
    remoteCount,             \* remote ops sequenced so far
    ref,                     \* store of a replica that applies only the stream
    events,                  \* events emitted by the last call
    err,                     \* "none", or the error the last call threw
    issued,                  \* every id returned by getMap*MessageId, in order
    resubmitLeft,            \* ops the runtime still has to resubmit
    last,                    \* the last call: its name, op and metadata
    entries,                 \* RangeMap.entries
    rangeCall,               \* the last RangeMap call and the error it threw
    pending,                 \* ScriptoriumLambda.pending: topic -> messages
    pendingOffset,           \* ScriptoriumLambda.pendingOffset (0: not set)
    current,                 \* ScriptoriumLambda.current: topic -> messages
    batches,                 \* batches whose Promise.all has not settled
    checkpoints,             \* offsets passed to context.checkpoint, in order
    errors,                  \* the restart flags passed to context.error
    handled,                 \* the messages handler received, in order
    written,                 \* operations the op collection holds
    closed                   \* close() was called

kernelVars == <<data, pendingKeys, pendingMessageId, pendingClearMessageIds,
                attribution, attached, track, submitted, sequenceNumber,
                remoteCount, ref, events, err, issued, resubmitLeft, last>>

rangeVars == <<entries, rangeCall>>

lambdaVars == <<pending, pendingOffset, current, batches, checkpoints, errors,
                handled, written, closed>>

vars == <<kernelVars, rangeVars, lambdaVars>>

\* ------------------------------------------------- insertion-ordered maps
Entry(k, v) == [key |-> k, value |-> v]

Has(m, k) == \E i \in 1..Len(m) : m[i].key = k

Get(m, k) ==
    IF Has(m, k) THEN m[CHOOSE i \in 1..Len(m) : m[i].key = k].value ELSE UNDEF

MapSet(m, k, v) ==
    IF Has(m, k)
    THEN [i \in 1..Len(m) |-> IF m[i].key = k THEN Entry(k, v) ELSE m[i]]
    ELSE Append(m, Entry(k, v))

IsNotKey(e, k) == e.key # k

MapDelete(m, k) == SelectSeq(m, LAMBDA e : IsNotKey(e, k))

KeysOf(m) == {m[i].key : i \in 1..Len(m)}

\* ------------------------------------------------------ ops and metadata
SetOp(k, v) == [type |-> "set", key |-> k, value |-> v]
DeleteOp(k) == [type |-> "delete", key |-> k, value |-> UNDEF]
ClearOp == [type |-> "clear", key |-> "", value |-> UNDEF]

\* An optional Map argument: a copy of the store, or `undefined`.
SomeMap(m) == [defined |-> TRUE, entries |-> m]

NoMap == [defined |-> FALSE, entries |-> <<>>]

\* NoMetadata is the `undefined` metadata passed with a remote message.
NoMetadata ==
    [type |-> "none", pendingMessageId |-> -1, previousValue |-> UNDEF,
     previousMap |-> NoMap]

isMapKeyLocalOpMetadata(md) == md.type \in {"add", "edit"}

isClearLocalOpMetadata(md) == md.type = "clear"

isMapLocalOpMetadata(md) == md.type \in {"add", "edit", "clear"}

createClearLocalOpMetadata(op, pendingClearMessageId, previousMap) ==
    [type |-> "clear", pendingMessageId |-> pendingClearMessageId,
     previousValue |-> UNDEF, previousMap |-> previousMap]

createKeyLocalOpMetadata(op, id, previousValue) ==
    IF previousValue # UNDEF
    THEN [type |-> "edit", pendingMessageId |-> id,
          previousValue |-> previousValue, previousMap |-> NoMap]
    ELSE [type |-> "add", pendingMessageId |-> id,
          previousValue |-> UNDEF, previousMap |-> NoMap]

Ev(name, key, previousValue, local) ==
    [name |-> name, key |-> key, previousValue |-> previousValue,
     local |-> local]

\* ------------------------------------------------ the kernel as a record
\* The methods below take the kernel as a record and return it after the
\* call; `ret` is the call's return value, `need` the boolean returned by
\* needProcessKeyOperation, `sent` what the call handed to submitMessage,
\* `meta` the metadata returned by applyStashedOp, `atSubmit` the pending
\* tables as they stood at each call of submitMessage.
Cur ==
    [data |-> data, pendingKeys |-> pendingKeys,
     pendingMessageId |-> pendingMessageId,
     pendingClearMessageIds |-> pendingClearMessageIds,
     attribution |-> attribution, attached |-> attached, track |-> track,
     events |-> <<>>, err |-> "none", issued |-> issued,
     sent |-> <<>>, ret |-> UNDEF, need |-> FALSE, meta |-> NoMetadata,
     atSubmit |-> <<>>]

Throw(k, e) == [k EXCEPT !.err = e]

\* Faulty variant: setting a key removes it first, so a present key moves last
setCoreMovingKey(k, key, value, local) ==
    LET previousLocalValue == Get(k.data, key) IN
    [k EXCEPT !.data = Append(MapDelete(@, key), Entry(key, value)),
              !.events = Append(@, Ev("valueChanged", key, previousLocalValue, local)),
              !.ret = previousLocalValue]

setCore(k, key, value, local) ==
    LET previousLocalValue == Get(k.data, key) IN
    [k EXCEPT !.data = MapSet(@, key, value),
              !.events = Append(@, Ev("valueChanged", key, previousLocalValue, local)),
              !.ret = previousLocalValue]

clearCore(k, local) ==
    [k EXCEPT !.data = <<>>,
              !.events = Append(@, Ev("clear", "", UNDEF, local))]

deleteCore(k, key, local) ==
    LET previousLocalValue == Get(k.data, key)
        successfullyRemoved == Has(k.data, key) IN
    [k EXCEPT !.data = MapDelete(@, key),
              !.events = IF successfullyRemoved
                         THEN Append(@, Ev("valueChanged", key, previousLocalValue, local))
                         ELSE @,
              !.ret = previousLocalValue]

setAttribution(k, seq, key) ==
    IF k.track THEN [k EXCEPT !.attribution[key] = seq] ELSE k

clearAttribution(k) ==
    IF k.track THEN [k EXCEPT !.attribution = [x \in Keys |-> 0]] ELSE k

getAttribution(key) == attribution[key]

RECURSIVE SetAll(_, _, _)
\* for (const [key, value] of m.entries()) setCore(key, value, true)
SetAll(k, m, i) ==
    IF i > Len(m) THEN k
    ELSE SetAll(setCore(k, m[i].key, m[i].value, TRUE), m, i + 1)

\* Faulty variant: the store is emptied for the restore without a clear event
clearExceptPendingKeysSilent(k) ==
    LET temp == [i \in 1..Len(k.pendingKeys) |->
                    Entry(k.pendingKeys[i].key, Get(k.data, k.pendingKeys[i].key))]
    IN SetAll([k EXCEPT !.data = <<>>], temp, 1)

clearExceptPendingKeys(k) ==
    LET temp == [i \in 1..Len(k.pendingKeys) |->
                    Entry(k.pendingKeys[i].key, Get(k.data, k.pendingKeys[i].key))]
    IN SetAll(clearCore(k, FALSE), temp, 1)

\* Faulty variant: a clear takes the counter's current value without incrementing it
getMapClearMessageIdNoIncrement(k) ==
    LET id == k.pendingMessageId IN
    [k EXCEPT !.pendingClearMessageIds = Append(@, id),
              !.issued = Append(@, id),
              !.ret = id]

getMapClearMessageId(k) ==
    LET id == k.pendingMessageId + 1 IN
    [k EXCEPT !.pendingMessageId = id,
              !.pendingClearMessageIds = Append(@, id),
              !.issued = Append(@, id),
              !.ret = id]

getMapKeyMessageId(k, op) ==
    LET id == k.pendingMessageId + 1 IN
    [k EXCEPT !.pendingMessageId = id,
              !.pendingKeys = IF Has(@, op.key)
                              THEN MapSet(@, op.key, Append(Get(@, op.key), id))
                              ELSE MapSet(@, op.key, <<id>>),
              !.issued = Append(@, id),
              !.ret = id]

submitMessage(k, op, md) ==
    [k EXCEPT !.sent = Append(@, [op |-> op, md |-> md]),
              !.atSubmit = Append(@, [pendingKeys |-> k.pendingKeys,
                                      pendingClearMessageIds |->
                                          k.pendingClearMessageIds])]

submitMapClearMessage(k, op, previousMap) ==
    LET k1 == getMapClearMessageId(k) IN
    submitMessage(k1, op, createClearLocalOpMetadata(op, k1.ret, previousMap))

\* Faulty variant: the metadata of a key op never carries the previous value
submitMapKeyMessageForgettingValue(k, op, previousValue) ==
    LET k1 == getMapKeyMessageId(k, op) IN
    submitMessage(k1, op, createKeyLocalOpMetadata(op, k1.ret, UNDEF))

submitMapKeyMessage(k, op, previousValue) ==
    LET k1 == getMapKeyMessageId(k, op) IN
    submitMessage(k1, op, createKeyLocalOpMetadata(op, k1.ret, previousValue))

\* -------------------------------------------------------- public methods
\* Faulty variant: set takes null and undefined keys like any other key
setAnyKey(k, key, value) ==
    LET k1 == setCore(k, key, value, TRUE) IN
    IF ~k.attached THEN k1
    ELSE submitMapKeyMessage(k1, SetOp(key, value), k1.ret)

set(k, key, value) ==
    IF key = UndefinedKey \/ key = NullKey
    THEN Throw(k, "Undefined and null keys are not supported")
    ELSE LET k1 == setCore(k, key, value, TRUE) IN
         IF ~k.attached THEN k1
         ELSE submitMapKeyMessage(k1, SetOp(key, value), k1.ret)

\* Faulty variant: delete submits its op whether or not the kernel is attached
deleteAlwaysSubmitting(k, key) ==
    LET k1 == deleteCore(k, key, TRUE) IN
    submitMapKeyMessage(k1, DeleteOp(key), k1.ret)

delete(k, key) ==
    LET k1 == deleteCore(k, key, TRUE) IN
    IF ~k.attached THEN k1
    ELSE submitMapKeyMessage(k1, DeleteOp(key), k1.ret)

clear(k) ==
    LET copy == IF k.attached THEN SomeMap(k.data) ELSE NoMap
        k1 == clearCore(k, TRUE) IN
    IF ~k.attached THEN k1
    ELSE submitMapClearMessage(k1, ClearOp, copy)

\* --------------------------------------------------------------- snapshot
\* A plain JavaScript object is a sequence of properties in property order:
\* array-index names first, in ascending numeric order, then the other names
\* in the order they were created.  ArrayIndex is the numeric value of an
\* array-index name, -1 for any other name.
ArrayIndex(key) ==
    CASE key = "1" -> 1
      [] key = "2" -> 2
      [] OTHER -> -1

\* obj[key] = value
ObjSet(o, key, value) ==
    IF Has(o, key) THEN MapSet(o, key, value)
    ELSE IF ArrayIndex(key) < 0 THEN Append(o, Entry(key, value))
    ELSE LET n == Cardinality({i \in 1..Len(o) :
                        /\ ArrayIndex(o[i].key) >= 0
                        /\ ArrayIndex(o[i].key) < ArrayIndex(key)})
         IN SubSeq(o, 1, n) \o <<Entry(key, value)>> \o SubSeq(o, n + 1, Len(o))

\* ISerializableValue of a stored value (attribution 0: none)
makeSerializable(localValue) ==
    [type |-> "Plain", value |-> localValue, attribution |-> 0]

RECURSIVE SerializableEntries(_, _, _)
\* for (const [key, localValue] of this.data.entries()) obj[key] = ...
SerializableEntries(m, i, o) ==
    IF i > Len(m) THEN o
    ELSE SerializableEntries(m, i + 1,
                             ObjSet(o, m[i].key, makeSerializable(m[i].value)))

getSerializableStorage(k) == SerializableEntries(k.data, 1, <<>>)

\* JSON.stringify writes the properties in property order; the text is
\* modelled as the sequence of its members
JSONstringify(o) == [i \in 1..Len(o) |-> <<o[i].key, o[i].value>>]

RECURSIVE JSONparseFrom(_, _, _)
\* JSON.parse creates the properties of the object member after member
JSONparseFrom(text, i, o) ==
    IF i > Len(text) THEN o
    ELSE JSONparseFrom(text, i + 1, ObjSet(o, text[i][1], text[i][2]))

JSONparse(text) == JSONparseFrom(text, 1, <<>>)

serialize(k) == JSONstringify(getSerializableStorage(k))

makeLocal(k, key, serializable) ==
    IF serializable.type \in {"Plain", "Shared"}
    THEN [k EXCEPT !.ret = serializable.value]
    ELSE Throw(k, "Unknown local value type")

RECURSIVE PopulateEntries(_, _, _)
\* for (const [key, serializable] of Object.entries(json)) this.data.set(...)
PopulateEntries(k, json, i) ==
    IF i > Len(json) THEN k
    ELSE LET k1 == makeLocal(k, json[i].key, json[i].value) IN
         IF k1.err # "none" THEN k1
         ELSE PopulateEntries(
                [k1 EXCEPT !.data = MapSet(@, json[i].key, k1.ret),
                           !.attribution =
                               IF json[i].value.attribution # 0 /\ k.track
                               THEN [@ EXCEPT ![json[i].key] =
                                                  json[i].value.attribution]
                               ELSE @],
                json, i + 1)

\* Faulty variant: populate empties the store before it loads the snapshot
populateFromSerializableReplacing(k, json) ==
    PopulateEntries([k EXCEPT !.data = <<>>], json, 1)

populateFromSerializable(k, json) == PopulateEntries(k, json, 1)

populate(k, json) == populateFromSerializable(k, JSONparse(json))

\* ---------------------------------------------------- inbound processing
Shift(ids) == IF Len(ids) > 0 THEN Tail(ids) ELSE ids

Pop(ids) == IF Len(ids) > 0 THEN SubSeq(ids, 1, Len(ids) - 1) ELSE ids

\* ids[0] and the value of ids.pop(); -1 stands for `undefined`
First(ids) == IF Len(ids) > 0 THEN ids[1] ELSE -1

Last(ids) == IF Len(ids) > 0 THEN ids[Len(ids)] ELSE -1

\* pendingMessageIds.shift(), then delete the key's list when it is empty
ShiftPendingKey(k, key) ==
    LET rest == Shift(Get(k.pendingKeys, key)) IN
    [k EXCEPT !.pendingKeys = IF Len(rest) = 0 THEN MapDelete(@, key)
                              ELSE MapSet(@, key, rest)]

\* Faulty variant: a pending clear does not shield the store from inbound key ops
needProcessKeyOperationNoClearCheck(k, op, seq, local, md) ==
    IF Has(k.pendingKeys, op.key)
    THEN IF local
         THEN IF ~isMapKeyLocalOpMetadata(md) THEN Throw(k, "0x014")
              ELSE IF First(Get(k.pendingKeys, op.key)) # md.pendingMessageId
              THEN Throw(k, "0x2fa")
              ELSE [setAttribution(ShiftPendingKey(k, op.key), seq, op.key)
                       EXCEPT !.need = FALSE]
         ELSE [k EXCEPT !.need = FALSE]
    ELSE [k EXCEPT !.need = ~local]

needProcessKeyOperation(k, op, seq, local, md) ==
    IF Len(k.pendingClearMessageIds) > 0
    THEN IF local /\ ~(isMapKeyLocalOpMetadata(md)
                       /\ md.pendingMessageId < k.pendingClearMessageIds[1])
         THEN Throw(k, "0x013")
         ELSE [k EXCEPT !.need = FALSE]
    ELSE IF Has(k.pendingKeys, op.key)
    THEN IF local
         THEN IF ~isMapKeyLocalOpMetadata(md) THEN Throw(k, "0x014")
              ELSE IF First(Get(k.pendingKeys, op.key)) # md.pendingMessageId
              THEN Throw(k, "0x2fa")
              ELSE [setAttribution(ShiftPendingKey(k, op.key), seq, op.key)
                       EXCEPT !.need = FALSE]
         ELSE [k EXCEPT !.need = FALSE]
    ELSE [k EXCEPT !.need = ~local]

processClear(k, seq, local, md) ==
    IF local
    THEN IF ~isClearLocalOpMetadata(md) THEN Throw(k, "0x015")
         ELSE LET pendingClearMessageId == First(k.pendingClearMessageIds)
                  k1 == [k EXCEPT !.pendingClearMessageIds = Shift(@)] IN
              IF pendingClearMessageId # md.pendingMessageId
              THEN Throw(k1, "0x2fb")
              ELSE clearAttribution(k1)
    ELSE IF Len(k.pendingKeys) > 0 THEN clearExceptPendingKeys(k)
    ELSE clearCore(clearAttribution(k), local)

processDelete(k, op, seq, local, md) ==
    LET k1 == needProcessKeyOperation(k, op, seq, local, md) IN
    IF k1.err # "none" \/ ~k1.need THEN k1
    ELSE deleteCore(setAttribution(k1, seq, op.key), op.key, local)

\* op.value of a set op, as the ISerializableValue it is on the wire
Serializable(value) ==
    [type |-> IF value = UnknownKindValue THEN "Unknown" ELSE "Plain",
     value |-> value, attribution |-> 0]

processSet(k, op, seq, local, md) ==
    LET k1 == needProcessKeyOperation(k, op, seq, local, md) IN
    IF k1.err # "none" \/ ~k1.need THEN k1
    ELSE LET k2 == setAttribution(k1, seq, op.key)
             context == makeLocal(k2, op.key, Serializable(op.value)) IN
         IF context.err # "none" THEN context
         ELSE setCore(context, op.key, context.ret, local)

\* Faulty variant: an op of an unknown type is processed as a clear
tryProcessMessageDefaultClear(k, op, seq, local, md) ==
    CASE op.type = "delete" -> [processDelete(k, op, seq, local, md) EXCEPT !.ret = TRUE]
      [] op.type = "set" -> [processSet(k, op, seq, local, md) EXCEPT !.ret = TRUE]
      [] OTHER -> [processClear(k, seq, local, md) EXCEPT !.ret = TRUE]

tryProcessMessage(k, op, seq, local, md) ==
    CASE op.type = "clear" -> [processClear(k, seq, local, md) EXCEPT !.ret = TRUE]
      [] op.type = "delete" -> [processDelete(k, op, seq, local, md) EXCEPT !.ret = TRUE]
      [] op.type = "set" -> [processSet(k, op, seq, local, md) EXCEPT !.ret = TRUE]
      [] OTHER -> [k EXCEPT !.ret = FALSE]

\* --------------------------------------------------------------- rollback
rollbackKey(k, op, md) ==
    LET k1 == IF md.type = "add" THEN deleteCore(k, op.key, TRUE)
              ELSE IF md.type = "edit" /\ md.previousValue # UNDEF
              THEN setCore(k, op.key, md.previousValue, TRUE)
              ELSE Throw(k, "Cannot rollback without previous value")
        pendingMessageIds == Get(k1.pendingKeys, op.key)
        rest == Pop(pendingMessageIds)
    IN  IF k1.err # "none" THEN k1
        ELSE IF ~Has(k1.pendingKeys, op.key)
        THEN Throw(k1, "Rollback op does not match last pending")
        ELSE IF Last(pendingMessageIds) # md.pendingMessageId
        THEN Throw([k1 EXCEPT !.pendingKeys = MapSet(@, op.key, rest)],
                   "Rollback op does not match last pending")
        ELSE [k1 EXCEPT !.pendingKeys = IF Len(rest) = 0 THEN MapDelete(@, op.key)
                                        ELSE MapSet(@, op.key, rest)]

\* Faulty variant: a rolled-back clear leaves its id in the pending-clear list
rollbackClearKeepingId(k, op, md) ==
    IF ~md.previousMap.defined
    THEN Throw(k, "Cannot rollback without previous map")
    ELSE LET k1 == SetAll(k, md.previousMap.entries, 1)
             lastPendingClearId == Last(k1.pendingClearMessageIds) IN
         IF lastPendingClearId # md.pendingMessageId
         THEN Throw(k1, "Rollback op does match last clear")
         ELSE k1

rollbackClear(k, op, md) ==
    IF ~md.previousMap.defined
    THEN Throw(k, "Cannot rollback without previous map")
    ELSE LET k1 == SetAll(k, md.previousMap.entries, 1)
             lastPendingClearId == Last(k1.pendingClearMessageIds)
             k2 == [k1 EXCEPT !.pendingClearMessageIds = Pop(@)] IN
         IF lastPendingClearId # md.pendingMessageId
         THEN Throw(k2, "Rollback op does match last clear")
         ELSE k2

\* Faulty variant: a rollback gives the rolled-back id back to the counter
rollbackReissuingId(k, op, md) ==
    IF ~isMapLocalOpMetadata(md) THEN Throw(k, "Invalid localOpMetadata")
    ELSE IF op.type = "clear" /\ md.type = "clear"
    THEN [rollbackClear(k, op, md) EXCEPT !.pendingMessageId = @ - 1]
    ELSE IF op.type \in {"delete", "set"}
    THEN [rollbackKey(k, op, md) EXCEPT !.pendingMessageId = @ - 1]
    ELSE Throw(k, "Unsupported op for rollback")

\* Faulty variant: add metadata is taken with a set op only
rollbackRejectingDeleteAdd(k, op, md) ==
    IF ~isMapLocalOpMetadata(md) THEN Throw(k, "Invalid localOpMetadata")
    ELSE IF op.type = "clear" /\ md.type = "clear" THEN rollbackClear(k, op, md)
    ELSE IF op.type = "delete" /\ md.type = "add"
    THEN Throw(k, "Cannot rollback without previous value")
    ELSE IF op.type \in {"delete", "set"} THEN rollbackKey(k, op, md)
    ELSE Throw(k, "Unsupported op for rollback")

rollback(k, op, md) ==
    IF ~isMapLocalOpMetadata(md) THEN Throw(k, "Invalid localOpMetadata")
    ELSE IF op.type = "clear" /\ md.type = "clear" THEN rollbackClear(k, op, md)
    ELSE IF op.type \in {"delete", "set"} THEN rollbackKey(k, op, md)
    ELSE Throw(k, "Unsupported op for rollback")

\* --------------------------------------------------------------- resubmit
\* Faulty variant: a resubmitted key op always gets "add" metadata
resubmitMapKeyMessageAsAdd(k, op, md) ==
    IF ~isMapKeyLocalOpMetadata(md) THEN Throw(k, "0x2fe")
    ELSE IF ~Has(k.pendingKeys, op.key)
            \/ First(Get(k.pendingKeys, op.key)) # md.pendingMessageId
    THEN Throw(k, "0x2ff")
    ELSE LET k1 == getMapKeyMessageId(ShiftPendingKey(k, op.key), op)
         IN submitMessage(k1, op, [type |-> "add", pendingMessageId |-> k1.ret,
                                   previousValue |-> UNDEF,
                                   previousMap |-> NoMap])

resubmitMapKeyMessage(k, op, md) ==
    IF ~isMapKeyLocalOpMetadata(md) THEN Throw(k, "0x2fe")
    ELSE IF ~Has(k.pendingKeys, op.key)
            \/ First(Get(k.pendingKeys, op.key)) # md.pendingMessageId
    THEN Throw(k, "0x2ff")
    ELSE LET k1 == getMapKeyMessageId(ShiftPendingKey(k, op.key), op)
             localMetadata ==
                 IF md.type = "edit"
                 THEN [type |-> "edit", pendingMessageId |-> k1.ret,
                       previousValue |-> md.previousValue,
                       previousMap |-> NoMap]
                 ELSE [type |-> "add", pendingMessageId |-> k1.ret,
                       previousValue |-> UNDEF,
                       previousMap |-> NoMap]
         IN submitMessage(k1, op, localMetadata)

\* Faulty variant: a resubmitted clear keeps the id of its metadata
submitClearReusingId(k, op, md) ==
    IF ~isClearLocalOpMetadata(md) THEN Throw(k, "0x2fc")
    ELSE LET pendingClearMessageId == First(k.pendingClearMessageIds)
             k1 == [k EXCEPT !.pendingClearMessageIds = Shift(@)] IN
         IF pendingClearMessageId # md.pendingMessageId THEN Throw(k1, "0x2fd")
         ELSE submitMessage([k1 EXCEPT !.pendingClearMessageIds =
                                           Append(@, md.pendingMessageId)],
                            op, md)

submitClear(k, op, md) ==
    IF ~isClearLocalOpMetadata(md) THEN Throw(k, "0x2fc")
    ELSE LET pendingClearMessageId == First(k.pendingClearMessageIds)
             k1 == [k EXCEPT !.pendingClearMessageIds = Shift(@)] IN
         IF pendingClearMessageId # md.pendingMessageId THEN Throw(k1, "0x2fd")
         ELSE submitMapClearMessage(k1, op, md.previousMap)

trySubmitMessage(k, op, md) ==
    CASE op.type = "clear" -> [submitClear(k, op, md) EXCEPT !.ret = TRUE]
      [] op.type \in {"delete", "set"} ->
            [resubmitMapKeyMessage(k, op, md) EXCEPT !.ret = TRUE]
      [] OTHER -> [k EXCEPT !.ret = FALSE]

\* ------------------------------------------------------------ stashed ops
applyStashedClear(k, op) ==
    LET copy == SomeMap(k.data)
        k1 == getMapClearMessageId(clearCore(k, TRUE)) IN
    [k1 EXCEPT !.meta = createClearLocalOpMetadata(op, k1.ret, copy)]

applyStashedDelete(k, op) ==
    LET k1 == deleteCore(k, op.key, TRUE)
        k2 == getMapKeyMessageId(k1, op) IN
    [k2 EXCEPT !.meta = createKeyLocalOpMetadata(op, k2.ret, k1.ret)]

\* Faulty variant: a stashed set goes through set(), which submits the op when
\* the kernel is attached and issues no id when it is not
applyStashedSetSubmitting(k, op) ==
    LET k1 == set(k, op.key, op.value) IN
    [k1 EXCEPT !.meta = IF Len(k1.sent) > 0 THEN k1.sent[1].md ELSE NoMetadata]

applyStashedSet(k, op) ==
    LET k1 == setCore(k, op.key, op.value, TRUE)
        k2 == getMapKeyMessageId(k1, op) IN
    [k2 EXCEPT !.meta = createKeyLocalOpMetadata(op, k2.ret, k1.ret)]

tryApplyStashedOp(k, op) ==
    CASE op.type = "clear" -> applyStashedClear(k, op)
      [] op.type = "delete" -> applyStashedDelete(k, op)
      [] op.type = "set" -> applyStashedSet(k, op)
      [] OTHER -> Throw(k, "no apply stashed op handler")

\* ------------------------------------------------------------ the replica
\* A replica with no local ops applies every sequenced op as a remote one.
ApplyOp(m, op) ==
    CASE op.type = "set" -> MapSet(m, op.key, op.value)
      [] op.type = "delete" -> MapDelete(m, op.key)
      [] op.type = "clear" -> <<>>

\* ------------------------------------------------------ ScriptoriumLambda
Topics == {"t1", "t2"}
MaxOffset == 3      \* messages the handler receives

SequencedOperationType == "op"

\* new Map(): no topic has a list of messages
NoMessages == [t \in Topics |-> <<>>]

\* Map.size: a topic is in the map once a message was pushed on its list
size(m) == Cardinality({t \in Topics : m[t] # <<>>})

\* The fields of the lambda and what it called on its context
Lambda ==
    [pending |-> pending, pendingOffset |-> pendingOffset,
     current |-> current, batches |-> batches,
     checkpoints |-> checkpoints, errors |-> errors]

\* The loop of handler: the sequenced operations of the boxcar, from the
\* i-th on, are pushed on the list of their topic
RECURSIVE pushSequenced(_, _, _)
pushSequenced(p, message, i) ==
    IF i > Len(message.contents) THEN p
    ELSE LET baseMessage == message.contents[i] IN
         IF baseMessage.type = SequencedOperationType
         THEN pushSequenced(
                  [p EXCEPT ![baseMessage.topic] =
                       Append(@, [offset |-> message.offset, index |-> i])],
                  message, i + 1)
         ELSE pushSequenced(p, message, i + 1)

\* A variant of sendPending without the early return on work being sent
sendPendingWhileSending(l) ==
    IF size(l.pending) = 0 THEN l
    ELSE [l EXCEPT
             !.current = l.pending,
             !.pending = l.current,
             !.batches = Append(@,
                 [offset |-> l.pendingOffset,
                  messages |-> l.pending,
                  writes |-> [t \in Topics |->
                      IF l.pending[t] # <<>> THEN "sent" ELSE "none"]])]

\* sendPending: swaps the maps and starts one write per topic; the batch
\* keeps the offset and the lists it was started with
sendPending(l) ==
    IF size(l.current) > 0 \/ size(l.pending) = 0 THEN l
    ELSE [l EXCEPT
             !.current = l.pending,
             !.pending = l.current,
             !.batches = Append(@,
                 [offset |-> l.pendingOffset,
                  messages |-> l.pending,
                  writes |-> [t \in Topics |->
                      IF l.pending[t] # <<>> THEN "sent" ELSE "none"]])]

handler(l, message) ==
    sendPending([l EXCEPT !.pending = pushSequenced(l.pending, message, 1),
                          !.pendingOffset = message.offset])

\* A variant of the first callback that checkpoints the latest offset handled
allProcessedAtPendingOffset(l, batch) ==
    sendPending([l EXCEPT
        !.current = NoMessages,
        !.checkpoints = Append(@, l.pendingOffset),
        !.batches = SelectSeq(@, LAMBDA b : b # batch)])

\* The first callback of Promise.all(allProcessed).then: every write resolved
allProcessed(l, batch) ==
    sendPending([l EXCEPT
        !.current = NoMessages,
        !.checkpoints = Append(@, batch.offset),
        !.batches = SelectSeq(@, LAMBDA b : b # batch)])

\* The second callback: a write was rejected
notProcessed(l, batch) ==
    [l EXCEPT !.errors = Append(@, TRUE),
              !.batches = SelectSeq(@, LAMBDA b : b # batch)]

close(l) == [l EXCEPT !.pending = NoMessages, !.current = NoMessages]

\* new ScriptoriumLambda(...): nothing handled, nothing written
NewLambda ==
    /\ pending = NoMessages
    /\ pendingOffset = 0
    /\ current = NoMessages
    /\ batches = <<>>
    /\ checkpoints = <<>>
    /\ errors = <<>>
    /\ handled = <<>>
    /\ written = {}
    /\ closed = FALSE

\* ----------------------------------------------------------------- Init
Call(act, op, md, local) ==
    [act |-> act, type |-> op.type, key |-> op.key, local |-> local]

\* new RangeMap(): no entries, no call made yet
NewRangeMap ==
    /\ entries = <<>>
    /\ rangeCall = [op |-> "new", start |-> 0, length |-> 0, value |-> UNDEF,
                    err |-> "none"]

Init ==
    /\ data = <<>>
    /\ pendingKeys = <<>>
    /\ pendingMessageId = -1
    /\ pendingClearMessageIds = <<>>
    /\ attribution = [x \in Keys |-> 0]
    /\ attached = TRUE
    /\ track = FALSE
    /\ submitted = <<>>
    /\ sequenceNumber = 0
    /\ remoteCount = 0
    /\ ref = <<>>
    /\ events = <<>>
    /\ err = "none"
    /\ issued = <<>>
    /\ resubmitLeft = 0
    /\ last = Call("init", ClearOp, NoMetadata, FALSE)
    /\ NewRangeMap
    /\ NewLambda

\* The kernel's fields after a call; the RangeMap is a separate object
Install(k) ==
    /\ data' = k.data
    /\ pendingKeys' = k.pendingKeys
    /\ pendingMessageId' = k.pendingMessageId
    /\ pendingClearMessageIds' = k.pendingClearMessageIds
    /\ attribution' = k.attribution
    /\ events' = k.events
    /\ err' = k.err
    /\ issued' = k.issued
    /\ UNCHANGED <<attached, track>>
    /\ UNCHANGED <<rangeVars, lambdaVars>>

\* The kernel is usable: no call has thrown, and no resubmit is under way
Idle == err = "none" /\ resubmitLeft = 0

Used == pendingMessageId + 1 + remoteCount

CanIssue == attached => Used < MaxOps

\* ----------------------------------------------------------- local calls
LocalCall(act, op, k) ==
    /\ Install(k)
    /\ submitted' = submitted \o k.sent
    /\ last' = Call(act, op, IF Len(k.sent) > 0 THEN k.sent[1].md ELSE NoMetadata, TRUE)
    /\ UNCHANGED <<sequenceNumber, remoteCount, ref, resubmitLeft>>

LocalSet ==
    /\ Idle /\ CanIssue
    /\ \E key \in Keys, value \in Values :
          LocalCall("set", SetOp(key, value), set(Cur, key, value))

LocalDelete ==
    /\ Idle /\ CanIssue
    /\ \E key \in Keys : LocalCall("delete", DeleteOp(key), delete(Cur, key))

LocalClear ==
    /\ Idle /\ CanIssue
    /\ LocalCall("clear", ClearOp, clear(Cur))

\* --------------------------------------------------- the sequenced stream
RemoteOps ==
    {SetOp(key, value) : key \in Keys, value \in Values}
        \cup {DeleteOp(key) : key \in Keys} \cup {ClearOp}

\* In-order delivery of an op of another client
ProcessRemote ==
    /\ Idle
    /\ Used < MaxOps
    /\ \E op \in RemoteOps :
          /\ Install(tryProcessMessage(Cur, op, sequenceNumber + 1, FALSE, NoMetadata))
          /\ ref' = ApplyOp(ref, op)
          /\ last' = Call("process", op, NoMetadata, FALSE)
    /\ sequenceNumber' = sequenceNumber + 1
    /\ remoteCount' = remoteCount + 1
    /\ UNCHANGED <<submitted, resubmitLeft>>

\* In-order delivery of this client's oldest unsequenced op, with the
\* metadata it was submitted with
ProcessLocal ==
    /\ Idle
    /\ Len(submitted) > 0
    /\ LET m == Head(submitted) IN
          /\ Install(tryProcessMessage(Cur, m.op, sequenceNumber + 1, TRUE, m.md))
          /\ ref' = ApplyOp(ref, m.op)
          /\ last' = Call("process", m.op, m.md, TRUE)
    /\ submitted' = Tail(submitted)
    /\ sequenceNumber' = sequenceNumber + 1
    /\ UNCHANGED <<remoteCount, resubmitLeft>>

\* ------------------------------------------- rollback, resubmit, stashed
\* The runtime rolls back the op submitted last, with its metadata
Rollback ==
    /\ Idle
    /\ Len(submitted) > 0
    /\ LET m == submitted[Len(submitted)] IN
          /\ Install(rollback(Cur, m.op, m.md))
          /\ last' = Call("rollback", m.op, m.md, TRUE)
    /\ submitted' = SubSeq(submitted, 1, Len(submitted) - 1)
    /\ UNCHANGED <<sequenceNumber, remoteCount, ref, resubmitLeft>>

\* On reconnection the runtime resubmits every unsequenced op, oldest first
Reconnect ==
    /\ Idle
    /\ Len(submitted) > 0
    /\ Used + Len(submitted) <= MaxOps
    /\ resubmitLeft' = Len(submitted)
    /\ last' = Call("reconnect", ClearOp, NoMetadata, TRUE)
    /\ events' = <<>>
    /\ UNCHANGED <<data, pendingKeys, pendingMessageId, pendingClearMessageIds,
                   attribution, attached, track, submitted, sequenceNumber,
                   remoteCount, ref, err, issued, rangeVars, lambdaVars>>

Resubmit ==
    /\ err = "none"
    /\ resubmitLeft > 0
    /\ LET m == Head(submitted)
           k == trySubmitMessage(Cur, m.op, m.md) IN
          /\ Install(k)
          /\ submitted' = Tail(submitted) \o k.sent
          /\ last' = Call("resubmit", m.op, m.md, TRUE)
    /\ resubmitLeft' = resubmitLeft - 1
    /\ UNCHANGED <<sequenceNumber, remoteCount, ref>>

\* A stashed op is applied as a local one; the runtime keeps the returned
\* metadata with the op until the op is sequenced
ApplyStashed ==
    /\ Idle
    /\ Used < MaxOps
    /\ \E op \in RemoteOps :
          LET k == tryApplyStashedOp(Cur, op) IN
          /\ Install(k)
          /\ submitted' = Append(submitted \o k.sent, [op |-> op, md |-> k.meta])
          /\ last' = Call("stashed", op, k.meta, TRUE)
    /\ UNCHANGED <<sequenceNumber, remoteCount, ref, resubmitLeft>>

Next ==
    \/ LocalSet
    \/ LocalDelete
    \/ LocalClear
    \/ ProcessRemote
    \/ ProcessLocal
    \/ Rollback
    \/ Reconnect
    \/ Resubmit
    \/ ApplyStashed

Spec == Init /\ [][Next]_vars

\* Local calls and the sequenced stream only
NextStream ==
    \/ LocalSet
    \/ LocalDelete
    \/ LocalClear
    \/ ProcessRemote
    \/ ProcessLocal

SpecStream == Init /\ [][NextStream]_vars

\* ------------------------------------------------- the kernel's callers
\* The public surface as any caller may use it, on a kernel that is attached
\* or not: set and delete with any key, clear, and ops of a type the kernel
\* has no handler for.
InitApi ==
    /\ data = <<>>
    /\ pendingKeys = <<>>
    /\ pendingMessageId = -1
    /\ pendingClearMessageIds = <<>>
    /\ attribution = [x \in Keys |-> 0]
    /\ attached \in BOOLEAN
    /\ track = FALSE
    /\ submitted = <<>>
    /\ sequenceNumber = 0
    /\ remoteCount = 0
    /\ ref = <<>>
    /\ events = <<>>
    /\ err = "none"
    /\ issued = <<>>
    /\ resubmitLeft = 0
    /\ last = Call("init", ClearOp, NoMetadata, FALSE)
    /\ NewRangeMap
    /\ NewLambda

\* Errors that reject a call and leave the kernel in use
Rejections ==
    {"none", "Undefined and null keys are not supported",
     "no apply stashed op handler"}

ApiOpen == err \in Rejections /\ resubmitLeft = 0

ApiSet ==
    /\ ApiOpen /\ CanIssue
    /\ \E key \in ApiKeys, value \in Values :
          LocalCall("set", SetOp(key, value), set(Cur, key, value))

ApiDelete ==
    /\ ApiOpen /\ CanIssue
    /\ \E key \in ApiKeys : LocalCall("delete", DeleteOp(key), delete(Cur, key))

ApiClear ==
    /\ ApiOpen /\ CanIssue
    /\ LocalCall("clear", ClearOp, clear(Cur))

\* An op of a type that has no message handler
UnknownOp == [type |-> "noop", key |-> "", value |-> UNDEF]

ProcessUnknown ==
    /\ ApiOpen
    /\ Used < MaxOps
    /\ \E local \in BOOLEAN :
          /\ Install(tryProcessMessage(Cur, UnknownOp, sequenceNumber + 1,
                                       local, NoMetadata))
          /\ last' = Call("process", UnknownOp, NoMetadata, local)
    /\ sequenceNumber' = sequenceNumber + 1
    /\ remoteCount' = remoteCount + 1
    /\ UNCHANGED <<submitted, ref, resubmitLeft>>

SubmitUnknown ==
    /\ ApiOpen
    /\ Install(trySubmitMessage(Cur, UnknownOp, NoMetadata))
    /\ last' = Call("resubmit", UnknownOp, NoMetadata, TRUE)
    /\ UNCHANGED <<submitted, sequenceNumber, remoteCount, ref, resubmitLeft>>

StashUnknown ==
    /\ ApiOpen
    /\ Install(tryApplyStashedOp(Cur, UnknownOp))
    /\ last' = Call("stashed", UnknownOp, NoMetadata, TRUE)
    /\ UNCHANGED <<submitted, sequenceNumber, remoteCount, ref, resubmitLeft>>

NextApi ==
    \/ ApiSet
    \/ ApiDelete
    \/ ApiClear
    \/ ProcessUnknown
    \/ SubmitUnknown
    \/ StashUnknown

SpecApi == InitApi /\ [][NextApi]_vars

\* ------------------------------------------------------ rollback callers
\* A rollback of any unsequenced op, the last one or an earlier one
RollbackAny ==
    /\ Idle
    /\ \E i \in 1..Len(submitted) :
          /\ Install(rollback(Cur, submitted[i].op, submitted[i].md))
          /\ last' = Call("rollback", submitted[i].op, submitted[i].md, TRUE)
          /\ submitted' = SubSeq(submitted, 1, i - 1)
                              \o SubSeq(submitted, i + 1, Len(submitted))
    /\ UNCHANGED <<sequenceNumber, remoteCount, ref, resubmitLeft>>

NextRollback ==
    \/ LocalSet
    \/ LocalDelete
    \/ LocalClear
    \/ RollbackAny

SpecRollback == Init /\ [][NextRollback]_vars

\* The metadata a caller may pass to rollback: that of an op in flight, as
\* it is or without its previous value or previous map, or none at all
RollbackMetadata ==
    {NoMetadata}
        \cup {submitted[i].md : i \in 1..Len(submitted)}
        \cup {[submitted[i].md EXCEPT !.previousValue = UNDEF,
                                      !.previousMap = NoMap] :
                  i \in 1..Len(submitted)}

\* The ops a caller may pass to rollback, of every type
RollbackOps ==
    {SetOp(key, 1) : key \in Keys} \cup {DeleteOp(key) : key \in Keys}
        \cup {ClearOp, UnknownOp}

\* rollback called with any pair of op and metadata; the call's metadata
\* kind is kept in `last` with the op
RollbackPair ==
    /\ Idle
    /\ \E op \in RollbackOps, md \in RollbackMetadata :
          LET k == rollback(Cur, op, md)
              rolledBack == {i \in 1..Len(submitted) : submitted[i].md = md}
          IN /\ Install(k)
             /\ last' = [act |-> "rollbackPair", type |-> op.type,
                         key |-> op.key, local |-> TRUE, kind |-> md.type,
                         whole |-> (md.previousValue # UNDEF
                                       \/ md.previousMap.defined)]
             /\ submitted' =
                   IF k.err = "none" /\ rolledBack # {}
                   THEN LET i == CHOOSE i \in rolledBack : TRUE IN
                        SubSeq(submitted, 1, i - 1)
                            \o SubSeq(submitted, i + 1, Len(submitted))
                   ELSE submitted
    /\ UNCHANGED <<sequenceNumber, remoteCount, ref, resubmitLeft>>

\* The local calls whose ops and metadata rollback is then called with
IssueForRollback ==
    /\ Idle /\ CanIssue
    /\ \/ \E key \in Keys : LocalCall("set", SetOp(key, 1), set(Cur, key, 1))
       \/ \E key \in Keys : LocalCall("delete", DeleteOp(key), delete(Cur, key))
       \/ LocalCall("clear", ClearOp, clear(Cur))

NextPairs ==
    \/ IssueForRollback
    \/ RollbackPair

SpecPairs == Init /\ [][NextPairs]_vars

\* Local ops that are never sequenced: they stay pending while remote ops
\* are processed and are rolled back, the last one first
NextUndo ==
    \/ LocalSet
    \/ LocalDelete
    \/ LocalClear
    \/ ProcessRemote
    \/ Rollback

SpecUndo == Init /\ [][NextUndo]_vars

\* --------------------------------------------------- stashed ops at load
\* A kernel, attached or not, that applies stashed ops while it loads and
\* receives the sequenced stream: remote ops and the acks of the stashed ops.
NextStashed ==
    \/ ApplyStashed
    \/ ProcessRemote
    \/ ProcessLocal

SpecStashed == InitApi /\ [][NextStashed]_vars

\* ------------------------------------------------------------ snapshots
\* A kernel that is not attached yet is filled by local calls and by
\* populate, and its snapshot is loaded into a new kernel.
InitSnapshot ==
    /\ data = <<>>
    /\ pendingKeys = <<>>
    /\ pendingMessageId = -1
    /\ pendingClearMessageIds = <<>>
    /\ attribution = [x \in Keys |-> 0]
    /\ attached = FALSE
    /\ track = FALSE
    /\ submitted = <<>>
    /\ sequenceNumber = 0
    /\ remoteCount = 0
    /\ ref = <<>>
    /\ events = <<>>
    /\ err = "none"
    /\ issued = <<>>
    /\ resubmitLeft = 0
    /\ last = Call("init", ClearOp, NoMetadata, FALSE)
    /\ NewRangeMap
    /\ NewLambda

SnapshotSet ==
    /\ Idle
    /\ \E key \in SnapshotKeys, value \in Values :
          LocalCall("set", SetOp(key, value), set(Cur, key, value))

SnapshotDelete ==
    /\ Idle
    /\ \E key \in SnapshotKeys : LocalCall("delete", DeleteOp(key), delete(Cur, key))

\* The stores a snapshot is taken of: at most two entries, no key twice
SnapshotStores ==
    {<<>>}
    \cup {<<Entry(x, v)>> : x \in SnapshotKeys, v \in Values}
    \cup UNION {{<<Entry(x, v), Entry(y, w)>> :
                    y \in SnapshotKeys \ {x}, v \in Values, w \in Values} :
                x \in SnapshotKeys}

\* populate is called with a snapshot that serialize produced
Populate ==
    /\ Idle
    /\ \E m \in SnapshotStores :
          Install(populate(Cur, serialize([Cur EXCEPT !.data = m])))
    /\ last' = Call("populate", ClearOp, NoMetadata, FALSE)
    /\ UNCHANGED <<submitted, sequenceNumber, remoteCount, ref, resubmitLeft>>

\* The kernel right after its constructor has run
NewKernel ==
    [Cur EXCEPT !.data = <<>>, !.pendingKeys = <<>>, !.pendingMessageId = -1,
                !.pendingClearMessageIds = <<>>,
                !.attribution = [x \in Keys |-> 0], !.issued = <<>>]

\* The kernel is serialized and the snapshot is loaded into a new kernel,
\* which takes its place
Reload ==
    /\ Idle
    /\ Install(populate(NewKernel, serialize(Cur)))
    /\ last' = Call("reload", ClearOp, NoMetadata, FALSE)
    /\ UNCHANGED <<submitted, sequenceNumber, remoteCount, ref, resubmitLeft>>

NextSnapshot ==
    \/ SnapshotSet
    \/ SnapshotDelete
    \/ LocalClear
    \/ Populate
    \/ Reload

SpecSnapshot == InitSnapshot /\ [][NextSnapshot]_vars

\* ----------------------------------------------------------- attribution
\* A kernel constructed with options.attribution.track, driven by local
\* calls and the sequenced stream.
InitAttribution ==
    /\ data = <<>>
    /\ pendingKeys = <<>>
    /\ pendingMessageId = -1
    /\ pendingClearMessageIds = <<>>
    /\ attribution = [x \in Keys |-> 0]
    /\ attached = TRUE
    /\ track = TRUE
    /\ submitted = <<>>
    /\ sequenceNumber = 0
    /\ remoteCount = 0
    /\ ref = <<>>
    /\ events = <<>>
    /\ err = "none"
    /\ issued = <<>>
    /\ resubmitLeft = 0
    /\ last = Call("init", ClearOp, NoMetadata, FALSE)
    /\ NewRangeMap
    /\ NewLambda

SpecAttribution == InitAttribution /\ [][NextStream]_vars

\* ------------------------------------------------- malformed remote sets
\* In-order delivery of another client's set whose value has an unknown kind
ProcessUnknownKind ==
    /\ Idle
    /\ Used < MaxOps
    /\ \E key \in Keys :
          LET op == SetOp(key, UnknownKindValue) IN
          /\ Install(tryProcessMessage(Cur, op, sequenceNumber + 1, FALSE, NoMetadata))
          /\ last' = Call("processUnknownKind", op, NoMetadata, FALSE)
    /\ sequenceNumber' = sequenceNumber + 1
    /\ remoteCount' = remoteCount + 1
    /\ UNCHANGED <<submitted, resubmitLeft, ref>>

NextKinds ==
    \/ NextStream
    \/ ProcessUnknownKind

\* The kernel with attribution tracking, receiving malformed sets as well
SpecKinds == InitAttribution /\ [][NextKinds]_vars

\* --------------------------------------------------------------- RangeMap
\* RangeMap (packages/dds/tree/src/util/rangeMap.ts): `entries` is an array
\* of {start, length, value}.  Array indices are those of the source, from 0;
\* At(es, i) is es[i].
RangeEntry(start, length, value) ==
    [start |-> start, length |-> length, value |-> value]

At(es, i) == es[i + 1]

Min(a, b) == IF a < b THEN a ELSE b

Max(a, b) == IF a > b THEN a ELSE b

\* es.splice(index, deleteCount, ...items), as the array afterwards
Splice(es, index, deleteCount, items) ==
    LET from == Min(Max(index, 0), Len(es))
        count == Min(Max(deleteCount, 0), Len(es) - from)
    IN SubSeq(es, 1, from) \o items \o SubSeq(es, from + count + 1, Len(es))

\* es[i] = entry
Put(es, i, entry) == [es EXCEPT ![i + 1] = entry]

RECURSIVE GetFrom(_, _, _, _)
\* the loop of getFromRange, from entry i on
GetFrom(es, i, start, length) ==
    IF i >= Len(es) THEN [value |-> UNDEF, length |-> length]
    ELSE LET entry == At(es, i)
             lastRangeKey == entry.start + entry.length - 1 IN
         IF entry.start > start
         THEN [value |-> UNDEF, length |-> Min(entry.start - start, length)]
         ELSE IF lastRangeKey >= start
         THEN [value |-> entry.value,
               length |-> Min(lastRangeKey - start + 1, length)]
         ELSE GetFrom(es, i + 1, start, length)

getFromRange(es, start, length) == GetFrom(es, 0, start, length)

RECURSIVE Scan(_, _, _, _, _)
\* the loop that finds iBefore and iAfter, from entry i on
Scan(es, i, iBefore, start, end) ==
    IF i >= Len(es) THEN [iBefore |-> iBefore, iAfter |-> Len(es)]
    ELSE LET entry == At(es, i)
             entryLastKey == entry.start + entry.length - 1 IN
         IF entryLastKey < start THEN Scan(es, i + 1, i, start, end)
         ELSE IF entry.start > end THEN [iBefore |-> iBefore, iAfter |-> i]
         ELSE Scan(es, i + 1, iBefore, start, end)

\* The result of a call: the array afterwards and the error thrown, if any
Done(es) == [entries |-> es, err |-> "none"]

Oob(es) == [entries |-> es, err |-> "oob"]

RECURSIVE DeleteLoop(_, _, _, _, _)
\* for (let i = iFirst; i <= iLast; ++i) of deleteFromRange, from i on
DeleteLoop(es, i, iLast, start, end) ==
    IF i > iLast THEN Done(es)
    ELSE IF i >= Len(es) THEN Oob(es)
    ELSE LET entry == At(es, i)
             entryLastKey == entry.start + entry.length - 1
             isDirty == entry.start < start
             trimmed == IF isDirty
                        THEN Put(es, i, [entry EXCEPT !.length = start - entry.start])
                        ELSE es
             rest == RangeEntry(end + 1, entryLastKey - end, entry.value)
         IN IF entry.start >= start /\ entryLastKey <= end
            THEN DeleteLoop(Splice(es, i, 1, <<>>), i + 1, iLast, start, end)
            ELSE IF entryLastKey > end
            THEN DeleteLoop(Splice(trimmed, IF isDirty THEN i + 1 ELSE i,
                                   IF isDirty THEN 0 ELSE 1, <<rest>>),
                            i + 1, iLast, start, end)
            ELSE DeleteLoop(trimmed, i + 1, iLast, start, end)

deleteFromRange(es, start, length) ==
    LET end == start + length - 1
        found == Scan(es, 0, -1, start, end)
        numOverlappingEntries == found.iAfter - found.iBefore - 1
    IN IF numOverlappingEntries = 0 THEN Done(es)
       ELSE DeleteLoop(es, found.iBefore + 1, found.iAfter - 1, start, end)

\* Faulty variant: a set inside one entry drops the part of it after the range
setInRangeDroppingSuffix(es, start, length, value) ==
    LET end == start + length - 1
        newEntry == RangeEntry(start, length, value)
        found == Scan(es, 0, -1, start, end)
        numOverlappingEntries == found.iAfter - found.iBefore - 1
        iFirst == found.iBefore + 1
        iLast == found.iAfter - 1
        firstEntry == At(es, iFirst)
        lastEntry == At(es, iLast)
        lengthBeforeFirst == start - firstEntry.start
        lastEntryKey == lastEntry.start + lastEntry.length - 1
        lengthAfterLast == lastEntryKey - end
        es1 == IF lengthBeforeFirst > 0
               THEN Put(es, iFirst, [firstEntry EXCEPT !.length = lengthBeforeFirst])
               ELSE es
        iBefore == IF lengthBeforeFirst > 0 THEN iFirst ELSE found.iBefore
        es2 == IF lengthAfterLast > 0
               THEN Put(es1, iLast, [lastEntry EXCEPT !.start = end + 1,
                                                      !.length = lengthAfterLast])
               ELSE es1
        iAfter == IF lengthAfterLast > 0 THEN iLast ELSE found.iAfter
    IN IF value = UNDEF THEN deleteFromRange(es, start, length)
       ELSE IF numOverlappingEntries = 0
       THEN Done(Splice(es, found.iAfter, 0, <<newEntry>>))
       ELSE IF iFirst < 0 \/ iFirst >= Len(es) \/ iLast < 0 \/ iLast >= Len(es)
       THEN Oob(es)
       ELSE IF lengthBeforeFirst > 0 /\ lengthAfterLast > 0 /\ iFirst = iLast
       THEN Done(Splice(es, iFirst, 1,
                        <<[firstEntry EXCEPT !.length = lengthBeforeFirst],
                          newEntry>>))
       ELSE Done(Splice(es2, iBefore + 1, iAfter - iBefore - 1, <<newEntry>>))

setInRange(es, start, length, value) ==
    LET end == start + length - 1
        newEntry == RangeEntry(start, length, value)
        found == Scan(es, 0, -1, start, end)
        numOverlappingEntries == found.iAfter - found.iBefore - 1
        iFirst == found.iBefore + 1
        iLast == found.iAfter - 1
        firstEntry == At(es, iFirst)
        lastEntry == At(es, iLast)
        lengthBeforeFirst == start - firstEntry.start
        lastEntryKey == lastEntry.start + lastEntry.length - 1
        lengthAfterLast == lastEntryKey - end
        es1 == IF lengthBeforeFirst > 0
               THEN Put(es, iFirst, [firstEntry EXCEPT !.length = lengthBeforeFirst])
               ELSE es
        iBefore == IF lengthBeforeFirst > 0 THEN iFirst ELSE found.iBefore
        es2 == IF lengthAfterLast > 0
               THEN Put(es1, iLast, [lastEntry EXCEPT !.start = end + 1,
                                                      !.length = lengthAfterLast])
               ELSE es1
        iAfter == IF lengthAfterLast > 0 THEN iLast ELSE found.iAfter
    IN IF value = UNDEF THEN deleteFromRange(es, start, length)
       ELSE IF numOverlappingEntries = 0
       THEN Done(Splice(es, found.iAfter, 0, <<newEntry>>))
       ELSE IF iFirst < 0 \/ iFirst >= Len(es) \/ iLast < 0 \/ iLast >= Len(es)
       THEN Oob(es)
       ELSE IF lengthBeforeFirst > 0 /\ lengthAfterLast > 0 /\ iFirst = iLast
       THEN Done(Splice(es, iFirst, 1,
                        <<[firstEntry EXCEPT !.length = lengthBeforeFirst],
                          newEntry,
                          [lastEntry EXCEPT !.start = end + 1,
                                            !.length = lengthAfterLast]>>))
       ELSE Done(Splice(es2, iBefore + 1, iAfter - iBefore - 1, <<newEntry>>))

\* ----------------------------------------------------- RangeMap's callers
\* The keys of the calls are 0..MaxKey; every range lies within them.
RangeKeys == 0..MaxKey

\* Any call may follow any call, also one that threw.
RangeCall(op, start, length, value, result) ==
    /\ entries' = result.entries
    /\ rangeCall' = [op |-> op, start |-> start, length |-> length,
                     value |-> value, err |-> result.err]
    /\ UNCHANGED <<kernelVars, lambdaVars>>

\* setInRange with a value; with `undefined` it is the deleteFromRange call
SetInRange ==
    \E start \in RangeKeys, value \in Values :
        \E length \in 1..(MaxKey + 1 - start) :
            RangeCall("set", start, length, value,
                      setInRange(entries, start, length, value))

DeleteFromRange ==
    \E start \in RangeKeys :
        \E length \in 1..(MaxKey + 1 - start) :
            RangeCall("delete", start, length, UNDEF,
                      deleteFromRange(entries, start, length))

NextRange ==
    \/ SetInRange
    \/ DeleteFromRange

SpecRange == Init /\ [][NextRange]_vars

\* The same calls on the keys below MaxKey
NarrowKeys == 0..(MaxKey - 1)

SetInNarrowRange ==
    \E start \in NarrowKeys, value \in Values :
        \E length \in 1..(MaxKey - start) :
            RangeCall("set", start, length, value,
                      setInRange(entries, start, length, value))

DeleteFromNarrowRange ==
    \E start \in NarrowKeys :
        \E length \in 1..(MaxKey - start) :
            RangeCall("delete", start, length, UNDEF,
                      deleteFromRange(entries, start, length))

NextNarrowRange ==
    \/ SetInNarrowRange
    \/ DeleteFromNarrowRange

SpecNarrowRange == Init /\ [][NextNarrowRange]_vars

\* ---------------------------------------------- ScriptoriumLambda: calls
InstallLambda(l) ==
    /\ pending' = l.pending
    /\ pendingOffset' = l.pendingOffset
    /\ current' = l.current
    /\ batches' = l.batches
    /\ checkpoints' = l.checkpoints
    /\ errors' = l.errors
    /\ UNCHANGED <<kernelVars, rangeVars>>

\* What a boxcar holds: sequenced operations of a topic and other messages
Sequenced(topic) == [type |-> SequencedOperationType, topic |-> topic]
Other == [type |-> "nack", topic |-> "t1"]
Boxcars ==
    {<<Other>>,
     <<Sequenced("t1")>>,
     <<Sequenced("t2")>>,
     <<Sequenced("t1"), Sequenced("t1")>>,
     <<Sequenced("t1"), Other, Sequenced("t2")>>}

\* The partition hands over the messages in offset order, until close()
Handler ==
    /\ ~closed
    /\ Len(handled) < MaxOffset
    /\ \E contents \in Boxcars :
        LET message == [offset |-> Len(handled) + 1, contents |-> contents] IN
        /\ handled' = Append(handled, message)
        /\ InstallLambda(handler(Lambda, message))
    /\ UNCHANGED <<written, closed>>

\* processMongoCore of one topic settles: the insert resolved ("ok"), hit
\* only duplicate keys ("duplicate": a replay, the collection holds the
\* operations already), or an insert or update was rejected ("rejected")
Settle(i, topic, outcome) ==
    /\ batches[i].writes[topic] = "sent"
    /\ batches' = [batches EXCEPT ![i].writes[topic] = outcome]
    /\ written' = IF outcome = "rejected" THEN written
                  ELSE written \cup {batches[i].messages[topic][j] :
                                        j \in 1..Len(batches[i].messages[topic])}
    /\ UNCHANGED <<pending, pendingOffset, current, checkpoints, errors,
                   handled, closed, kernelVars, rangeVars>>

ProcessMongoCore ==
    \E i \in 1..Len(batches), topic \in Topics :
        \E outcome \in {"ok", "duplicate", "rejected"} :
            Settle(i, topic, outcome)

\* Promise.all resolves once every write of the batch resolved
AllProcessed ==
    \E i \in 1..Len(batches) :
        /\ \A t \in Topics : batches[i].writes[t] \in {"none", "ok", "duplicate"}
        /\ InstallLambda(allProcessed(Lambda, batches[i]))
        /\ UNCHANGED <<handled, written, closed>>

\* Promise.all rejects with the first write that was rejected
NotProcessed ==
    \E i \in 1..Len(batches) :
        /\ \E t \in Topics : batches[i].writes[t] = "rejected"
        /\ InstallLambda(notProcessed(Lambda, batches[i]))
        /\ UNCHANGED <<handled, written, closed>>

Close ==
    /\ ~closed
    /\ closed' = TRUE
    /\ InstallLambda(close(Lambda))
    /\ UNCHANGED <<handled, written>>

NextLambda ==
    \/ Handler
    \/ ProcessMongoCore
    \/ AllProcessed
    \/ NotProcessed
    \/ Close

SpecLambda == Init /\ [][NextLambda]_vars

\* ------------------------------------------------------------ observers
\* What has() and get() show of a store: the keys present and their values
StoreOf(m) == [x \in Keys |-> <<Has(m, x), Get(m, x)>>]

RECURSIVE Flatten(_, _)
\* The ids of every key list of a pending-key table, list after list
Flatten(pk, i) ==
    IF i > Len(pk) THEN <<>> ELSE pk[i].value \o Flatten(pk, i + 1)

\* Every id stored in the pending tables, with repetitions
AllPending(pk, pc) == Flatten(pk, 1) \o pc

SeqToSet(q) == {q[i] : i \in 1..Len(q)}

\* The ids of the ops that are submitted and not yet sequenced
SubmittedIds == {submitted[i].md.pendingMessageId : i \in 1..Len(submitted)}

LocalOps ==
    {SetOp(key, value) : key \in Keys, value \in Values}
        \cup {DeleteOp(key) : key \in Keys} \cup {ClearOp}

\* A local call of op on kernel k
Issue(k, op) ==
    CASE op.type = "set" -> set(k, op.key, op.value)
      [] op.type = "delete" -> delete(k, op.key)
      [] op.type = "clear" -> clear(k)

\* Indices of the unsequenced ops that write key x: its key ops and clears
Writes(x) ==
    {i \in 1..Len(submitted) :
        submitted[i].op.type = "clear" \/ submitted[i].op.key = x}

\* The pending local ops leave key x set: the last of them is a set of x
LeavesSet(x) ==
    /\ Writes(x) # {}
    /\ submitted[CHOOSE i \in Writes(x) : \A j \in Writes(x) : j <= i].op.type = "set"

\* ----------------------------------------------------------------- C1
\* C1: once every local op has been acknowledged, the keys present in the
\* local store and their values equal those of the store obtained by
\* applying the sequenced stream in order to an empty map.
C1_ConvergesToStream ==
    (err = "none" /\ Len(submitted) = 0) => StoreOf(data) = StoreOf(ref)

\* ----------------------------------------------------------------- C2
\* C2: the pending tables hold exactly the ids of the local ops that are
\* submitted and not yet acknowledged, rolled back or replaced by a
\* resubmit; an acknowledged id is in neither table.
C2_PendingIsUnacked ==
    err = "none" =>
        SeqToSet(AllPending(pendingKeys, pendingClearMessageIds)) = SubmittedIds

\* ----------------------------------------------------------------- C3
\* C3: when the ack of a local set/delete is about to be processed while no
\* clear is pending and the key has a pending list, the ack's id is the first
\* id of that list, so assertion 0x2fa does not fail.
C3_AckIsFrontOfList ==
    /\ err # "0x2fa"
    /\ (/\ Idle
        /\ Len(submitted) > 0
        /\ Head(submitted).op.type \in {"set", "delete"}
        /\ Len(pendingClearMessageIds) = 0
        /\ Has(pendingKeys, Head(submitted).op.key))
       => First(Get(pendingKeys, Head(submitted).op.key))
              = Head(submitted).md.pendingMessageId

\* ----------------------------------------------------------------- C4
\* C4: right after a remote clear is processed while pendingKeys is non-empty
\* the keys present in the store are exactly the keys that the pending local
\* ops leave set, each with the value it had just before the remote clear.
C4_ClearKeepsPendingSets ==
    [][(/\ last'.act = "process" /\ ~last'.local /\ last'.type = "clear"
        /\ Len(pendingKeys) > 0)
       => /\ KeysOf(data') = {x \in Keys : LeavesSet(x)}
          /\ \A x \in KeysOf(data') : Get(data', x) = Get(data, x)]_vars

\* ----------------------------------------------------------------- C5
\* C5: while a key has a pending id and no local clear is pending, a remote
\* set/delete on that key changes neither the store nor the pending tables and
\* emits no event; the ack of the oldest pending local op on that key removes
\* the front id of the key's list only and leaves the store unchanged.
C5_PendingKeyShields ==
    [][(/\ last'.act = "process" /\ last'.type \in {"set", "delete"}
        /\ Len(pendingClearMessageIds) = 0
        /\ Has(pendingKeys, last'.key))
       => /\ data' = data
          /\ pendingClearMessageIds' = pendingClearMessageIds
          /\ IF last'.local
             THEN /\ err' = "none"
                  /\ pendingKeys' = ShiftPendingKey(Cur, last'.key).pendingKeys
             ELSE /\ pendingKeys' = pendingKeys
                  /\ events' = <<>>]_vars

\* ----------------------------------------------------------------- C6
\* C6: while pendingClearMessageIds is non-empty, processing an inbound set or
\* delete, remote or the ack of an own op, leaves the store unchanged and
\* emits no valueChanged event.
C6_PendingClearShields ==
    [][(/\ last'.act = "process" /\ last'.type \in {"set", "delete"}
        /\ Len(pendingClearMessageIds) > 0)
       => /\ data' = data
          /\ \A i \in 1..Len(events') : events'[i].name # "valueChanged"]_vars

\* A remote set has just been processed while a local clear is pending
C6_Witness ==
    /\ last.act = "process" /\ last.type = "set" /\ ~last.local
    /\ Len(pendingClearMessageIds) > 0
    /\ ref # <<>>
    /\ err = "none"

\* ----------------------------------------------------------------- C7
\* C7: when the ack of a local clear has just been processed and no local set
\* was issued after that clear, the store is empty.
C7_EmptyAfterClearAck ==
    (/\ last.act = "process" /\ last.local /\ last.type = "clear"
     /\ err = "none"
     /\ \A i \in 1..Len(submitted) : submitted[i].op.type # "set")
    => Len(data) = 0

\* ----------------------------------------------------------------- C8
\* C8: in every reachable state of an attached kernel, issuing any one local
\* op and rolling it back at once with its metadata restores the store's keys
\* and values and both pending tables, and keeps the incremented counter.
C8_RollbackIsInverse ==
    (Idle /\ attached /\ Used < MaxOps) =>
        \A op \in LocalOps :
            LET k1 == Issue(Cur, op)
                k2 == rollback(k1, op, k1.sent[1].md) IN
            /\ k2.err = "none"
            /\ StoreOf(k2.data) = StoreOf(data)
            /\ k2.pendingKeys = pendingKeys
            /\ k2.pendingClearMessageIds = pendingClearMessageIds
            /\ k2.pendingMessageId = pendingMessageId + 1

\* ----------------------------------------------------------------- C9
\* C9: the counter starts at -1, the first id issued is 0, and every id
\* issued (by a local call, a resubmit or a stashed op) is greater than all
\* ids issued before it, also after rollbacks.
C9_IdsIncrease ==
    /\ Len(issued) = 0 => pendingMessageId = -1
    /\ Len(issued) > 0 => issued[1] = 0
    /\ \A i, j \in 1..Len(issued) : i < j => issued[i] < issued[j]

\* Three ids were issued, the last by a stashed op, and only one op is in
\* flight with none sequenced: the others were rolled back or resubmitted
C9_Witness ==
    /\ last.act = "stashed"
    /\ Len(issued) = 3
    /\ Len(submitted) = 1
    /\ sequenceNumber = remoteCount

\* ---------------------------------------------------------------- C10
\* C10: every id stored in the pending tables occurs exactly once in them:
\* in one key list or in the pending-clear list, and once in that list.
C10_PendingIdsOnce ==
    LET all == AllPending(pendingKeys, pendingClearMessageIds) IN
    \A i, j \in 1..Len(all) : i # j => all[i] # all[j]

\* Both keys have a pending list and a clear is pending
C10_Witness ==
    /\ Len(pendingKeys) = 2
    /\ Len(pendingClearMessageIds) = 1

\* ---------------------------------------------------------------- C11
\* The ids of the key ops that were submitted after the first pending clear
\* and are not yet sequenced
KeyIdsAfterFirstClear ==
    {submitted[j].md.pendingMessageId :
        j \in {j \in 1..Len(submitted) :
                 /\ submitted[j].op.type \in {"set", "delete"}
                 /\ \E i \in 1..(j - 1) :
                       /\ submitted[i].op.type = "clear"
                       /\ submitted[i].md.pendingMessageId
                              = First(pendingClearMessageIds)}}

\* C11 as stated: while pendingClearMessageIds is non-empty, every id in every
\* pendingKeys list is greater than the first id of pendingClearMessageIds.
C11_KeyIdsAboveClear ==
    Len(pendingClearMessageIds) > 0 =>
        \A id \in SeqToSet(Flatten(pendingKeys, 1)) :
            id > pendingClearMessageIds[1]

\* C11: while pendingClearMessageIds is non-empty, an id in a pendingKeys list
\* is greater than the first id of pendingClearMessageIds exactly when its key
\* op was submitted after that clear; every other id in pendingKeys (a key op
\* submitted before that clear stays pending) is smaller than it.
C11_KeyIdsAroundClear ==
    (err = "none" /\ Len(pendingClearMessageIds) > 0) =>
        \A id \in SeqToSet(Flatten(pendingKeys, 1)) :
            IF id \in KeyIdsAfterFirstClear
            THEN id > pendingClearMessageIds[1]
            ELSE id < pendingClearMessageIds[1]

\* A clear is pending between a key op submitted before it and one after it
C11_Witness ==
    /\ err = "none"
    /\ Len(pendingClearMessageIds) = 1
    /\ \E id \in SeqToSet(Flatten(pendingKeys, 1)) : id < pendingClearMessageIds[1]
    /\ \E id \in KeyIdsAfterFirstClear : id > pendingClearMessageIds[1]

\* ---------------------------------------------------------------- C12
\* What keys() iterates: the keys of the store in iteration order
KeyOrder(m) == [i \in 1..Len(m) |-> m[i].key]

\* Key x is iterated before key y in store m
Before(m, x, y) ==
    \E i, j \in 1..Len(m) : i < j /\ m[i].key = x /\ m[j].key = y

\* The call emitted a clear event: it emptied the store
Cleared(evs) == \E i \in 1..Len(evs) : evs[i].name = "clear"

\* C12: the store iterates its keys in the order of their last insertion: a
\* call that does not empty the store (a set of a present key included) keeps
\* the relative order of the keys that stay present, and a key that it
\* inserts (a new key, or one deleted before and set again) comes after all
\* keys that were present; after a clear only the keys put back are present,
\* in the order they were put back.
C12_InsertionOrder ==
    [][/\ ~Cleared(events') =>
            /\ \A x, y \in KeysOf(data) \cap KeysOf(data') :
                    Before(data', x, y) <=> Before(data, x, y)
            /\ \A x \in KeysOf(data') \ KeysOf(data), y \in KeysOf(data) :
                    ~Before(data', x, y)
       /\ Cleared(events') =>
            IF last'.act = "process" /\ Len(pendingKeys) > 0
            THEN KeyOrder(data') = KeyOrder(pendingKeys)
            ELSE data' = <<>>]_vars

\* Key a was set, then b, then a was deleted and set again: b comes first
C12_Witness ==
    /\ Len(submitted) = 4
    /\ submitted[1].op.type = "set" /\ submitted[1].op.key = "a"
    /\ submitted[2].op.type = "set" /\ submitted[2].op.key = "b"
    /\ submitted[3].op.type = "delete" /\ submitted[3].op.key = "a"
    /\ submitted[4].op.type = "set" /\ submitted[4].op.key = "a"
    /\ KeyOrder(data) = <<"b", "a">>

\* ---------------------------------------------------------------- C13
\* C13: for every store, with any string keys, populating an empty kernel
\* with the store's serialized form yields a store with the same keys, the
\* same values and the same iteration order.
C13_RoundTrip ==
    [][last'.act = "reload" => (err' = "none" /\ data' = data)]_vars

\* ---------------------------------------------------------------- C14
\* The kernel after populate is called with the snapshot of store m
Populated(m) == populate(Cur, serialize([Cur EXCEPT !.data = m]))

\* C14 as stated: after populate(snapshot) on a kernel whose store is
\* non-empty the store contains exactly the keys of the snapshot; the keys
\* present before and not in the snapshot are gone.
C14_PopulateReplaces ==
    (Idle /\ Len(data) > 0) =>
        \A m \in SnapshotStores : KeysOf(Populated(m).data) = KeysOf(m)

\* C14: populate adds the snapshot to the store: after populate(snapshot) on a
\* kernel whose store is non-empty the store contains exactly the keys of the
\* snapshot and the keys present before; a key of the snapshot has the
\* snapshot's value, any other key keeps its value, and the keys present
\* before keep their iteration order.
C14_PopulateMerges ==
    (Idle /\ Len(data) > 0) =>
        \A m \in SnapshotStores :
            LET k == Populated(m) IN
            /\ k.err = "none"
            /\ KeysOf(k.data) = KeysOf(m) \cup KeysOf(data)
            /\ \A x \in KeysOf(m) : Get(k.data, x) = Get(m, x)
            /\ \A x \in KeysOf(data) \ KeysOf(m) : Get(k.data, x) = Get(data, x)
            /\ SubSeq(KeyOrder(k.data), 1, Len(data)) = KeyOrder(data)

\* populate has just run and the store holds a key the snapshot did not have
C14_Witness ==
    /\ last.act = "populate"
    /\ err = "none"
    /\ Len(data) = 3

\* ---------------------------------------------------------------- C15
\* The call changed nothing: store, pending tables and counter are as before,
\* no event was emitted and no op was submitted
NothingChanged ==
    /\ data' = data
    /\ pendingKeys' = pendingKeys
    /\ pendingClearMessageIds' = pendingClearMessageIds
    /\ pendingMessageId' = pendingMessageId
    /\ submitted' = submitted
    /\ events' = <<>>

\* C15 as stated: set and delete called with a null, undefined or empty-string
\* key are rejected with an error before any mutation: store, pending tables
\* and id counter are unchanged, no event is emitted, no op is submitted.
C15_InvalidKeysRejected ==
    [][(/\ last'.act \in {"set", "delete"}
        /\ last'.key \in {NullKey, UndefinedKey, ""})
       => (err' # "none" /\ NothingChanged)]_vars

\* C15: set called with a null or undefined key is rejected with an error
\* before any mutation: store, pending tables and id counter are unchanged,
\* no event is emitted, no op is submitted.  set accepts the empty string as
\* a key, and delete rejects no key.
C15_NullKeysRejectedBySet ==
    [][/\ (last'.act = "set" /\ last'.key \in {NullKey, UndefinedKey})
          => (err' # "none" /\ NothingChanged)
       /\ (last'.act = "set" /\ last'.key = "")
          => (err' = "none" /\ Has(data', ""))
       /\ last'.act = "delete" => err' = "none"]_vars

\* set(null) has just been rejected by an attached kernel with a pending op
C15_Witness ==
    /\ last.act = "set" /\ last.key = NullKey
    /\ err = "Undefined and null keys are not supported"
    /\ attached
    /\ Len(data) > 0
    /\ Len(submitted) > 0

\* ---------------------------------------------------------------- C16
\* C16: a rollback that fails because the id of its metadata is not the last
\* id of the pending list it belongs to leaves the store and both pending
\* tables as they were and emits no event.
C16_FailedRollbackChangesNothing ==
    [][(/\ last'.act = "rollback"
        /\ err' \in {"Rollback op does not match last pending",
                     "Rollback op does match last clear"})
       => /\ data' = data
          /\ pendingKeys' = pendingKeys
          /\ pendingClearMessageIds' = pendingClearMessageIds
          /\ events' = <<>>]_vars

\* ---------------------------------------------------------------- C17
\* C17: while isAttached() returns false, set, delete and clear update the
\* store and emit their events, but submit no op, leave the id counter as it
\* is and add nothing to pendingKeys or pendingClearMessageIds.
C17_DetachedCallsStayLocal ==
    [][(/\ ~attached
        /\ last'.act \in {"set", "delete", "clear"}
        /\ err' = "none")
       => /\ submitted' = submitted
          /\ pendingMessageId' = pendingMessageId
          /\ issued' = issued
          /\ pendingKeys' = pendingKeys
          /\ pendingClearMessageIds' = pendingClearMessageIds
          /\ CASE last'.act = "set" ->
                    /\ Has(data', last'.key)
                    /\ KeysOf(data') = KeysOf(data) \cup {last'.key}
                    /\ events' = <<Ev("valueChanged", last'.key,
                                      Get(data, last'.key), TRUE)>>
               [] last'.act = "delete" ->
                    /\ data' = MapDelete(data, last'.key)
                    /\ events' = IF Has(data, last'.key)
                                 THEN <<Ev("valueChanged", last'.key,
                                           Get(data, last'.key), TRUE)>>
                                 ELSE <<>>
               [] last'.act = "clear" ->
                    /\ data' = <<>>
                    /\ events' = <<Ev("clear", "", UNDEF, TRUE)>>]_vars

\* A kernel that is not attached has just deleted one of its two keys
C17_Witness ==
    /\ ~attached
    /\ last.act = "delete" /\ err = "none"
    /\ Len(events) = 1
    /\ Len(data) = 1
    /\ pendingMessageId = -1 /\ Len(submitted) = 0

\* ---------------------------------------------------------------- C18
\* C18: resubmitting a set or delete whose metadata id is the front of its
\* key's pending list removes that id from the front, issues one fresh id
\* larger than all ids issued before, appends it to the same key's list,
\* submits once the same op with metadata of the same kind (add or edit)
\* carrying the fresh id and the same previousValue, and leaves the store
\* unchanged.
C18_ResubmitKeyOp ==
    [][(/\ last'.act = "resubmit" /\ last'.type \in {"set", "delete"}
        /\ Has(pendingKeys, last'.key)
        /\ First(Get(pendingKeys, last'.key))
              = Head(submitted).md.pendingMessageId)
       => LET m == Head(submitted)
              ids == Get(pendingKeys, last'.key)
              fresh == pendingMessageId' IN
          /\ err' = "none"
          /\ data' = data /\ events' = <<>>
          /\ issued' = Append(issued, fresh)
          /\ \A i \in 1..Len(issued) : issued[i] < fresh
          /\ Get(pendingKeys', last'.key) = Append(Tail(ids), fresh)
          /\ \A x \in KeysOf(pendingKeys) \cup KeysOf(pendingKeys') :
                x # last'.key => Get(pendingKeys', x) = Get(pendingKeys, x)
          /\ pendingClearMessageIds' = pendingClearMessageIds
          /\ submitted' = Append(Tail(submitted),
                                 [op |-> m.op,
                                  md |-> [m.md EXCEPT !.pendingMessageId = fresh]])]_vars

\* A set that replaced a value has just been resubmitted with edit metadata
C18_Witness ==
    /\ last.act = "resubmit" /\ last.type = "set"
    /\ err = "none"
    /\ Len(submitted) > 0
    /\ submitted[Len(submitted)].md.type = "edit"
    /\ submitted[Len(submitted)].md.pendingMessageId = pendingMessageId

\* ---------------------------------------------------------------- C19
\* What C19 says of tryApplyStashedOp(op) on kernel k, whose counter is at
\* id - 1: the kernel after the call
StashedOutcome(k, op, id) ==
    LET prev == Get(k.data, op.key) IN
    [k EXCEPT
        !.data = ApplyOp(@, op),
        !.events = CASE op.type = "clear" -> <<Ev("clear", "", UNDEF, TRUE)>>
                     [] op.type = "set" -> <<Ev("valueChanged", op.key, prev, TRUE)>>
                     [] op.type = "delete" ->
                            IF Has(k.data, op.key)
                            THEN <<Ev("valueChanged", op.key, prev, TRUE)>>
                            ELSE <<>>,
        !.pendingMessageId = id,
        !.issued = Append(@, id),
        !.pendingClearMessageIds = IF op.type = "clear" THEN Append(@, id) ELSE @,
        !.pendingKeys = IF op.type = "clear" THEN @
                        ELSE IF Has(@, op.key)
                        THEN MapSet(@, op.key, Append(Get(@, op.key), id))
                        ELSE Append(@, Entry(op.key, <<id>>)),
        !.meta = CASE op.type = "clear" ->
                        [type |-> "clear", pendingMessageId |-> id,
                         previousValue |-> UNDEF, previousMap |-> SomeMap(k.data)]
                   [] prev = UNDEF ->
                        [type |-> "add", pendingMessageId |-> id,
                         previousValue |-> UNDEF, previousMap |-> NoMap]
                   [] OTHER ->
                        [type |-> "edit", pendingMessageId |-> id,
                         previousValue |-> prev, previousMap |-> NoMap]]

C20_UnknownOpIgnored ==
    [][last'.type \notin {"set", "delete", "clear"}
       => /\ NothingChanged
          /\ attribution' = attribution
          /\ issued' = issued
          /\ CASE last'.act = "process" ->
                    /\ err' = "none"
                    /\ tryProcessMessage(Cur, UnknownOp, sequenceNumber + 1,
                                         last'.local, NoMetadata).ret = FALSE
               [] last'.act = "resubmit" ->
                    /\ err' = "none"
                    /\ trySubmitMessage(Cur, UnknownOp, NoMetadata).ret = FALSE
               [] last'.act = "stashed" ->
                    err' = "no apply stashed op handler"]_vars

\* An op of an unknown type has just been processed by a kernel with a
\* non-empty store and an op in flight
C20_Witness ==
    /\ last.type = "noop" /\ last.act = "process"
    /\ err = "none"
    /\ Len(data) > 0
    /\ Len(pendingKeys) > 0
    /\ Len(submitted) > 0

\* ---------------------------------------------------------------- C21
\* The step is a remote clear processed while pendingKeys is non-empty
RemoteClearWithPending ==
    /\ last'.act = "process" /\ ~last'.local /\ last'.type = "clear"
    /\ Len(pendingKeys) > 0

\* C21 as stated: a remote clear processed while pendingKeys is non-empty
\* emits no clear event, only valueChanged events for the restored keys; a
\* clear event is emitted exactly for a local clear call, a stashed clear and
\* a remote clear processed with no pending keys.
C21_NoClearEventOnRestore ==
    [][/\ RemoteClearWithPending => ~Cleared(events')
       /\ Cleared(events') <=>
             /\ last'.type = "clear"
             /\ \/ last'.act \in {"clear", "stashed"}
                \/ /\ last'.act = "process" /\ ~last'.local
                   /\ Len(pendingKeys) = 0]_vars

\* C21: a remote clear processed while pendingKeys is non-empty emits one
\* clear event with local = false and then one valueChanged event with
\* local = true for each key of pendingKeys, in the order of pendingKeys; a
\* clear event is emitted exactly for a local clear call, a stashed clear and
\* a remote clear, with or without pending keys.
C21_ClearEventOnEveryRemoteClear ==
    [][/\ RemoteClearWithPending =>
             events' = <<Ev("clear", "", UNDEF, FALSE)>>
                       \o [i \in 1..Len(pendingKeys) |->
                              Ev("valueChanged", pendingKeys[i].key, UNDEF, TRUE)]
       /\ Cleared(events') <=>
             /\ last'.type = "clear"
             /\ \/ last'.act \in {"clear", "stashed"}
                \/ last'.act = "process" /\ ~last'.local]_vars

\* A remote clear has just been processed with a key pending: a clear event
\* and the restore's valueChanged were emitted
C21_Witness ==
    /\ last.act = "process" /\ ~last.local /\ last.type = "clear"
    /\ Len(events) = 2
    /\ events[1].name = "clear"
    /\ events[2].name = "valueChanged"

\* ---------------------------------------------------------------- C22
\* C22: with attribution tracking enabled, right after any remote clear has
\* been processed the attribution map is empty, also when the remote clear
\* arrives while pendingKeys is non-empty.
C22_RemoteClearEmptiesAttribution ==
    [][(/\ track
        /\ last'.act = "process" /\ ~last'.local /\ last'.type = "clear")
       => attribution' = [x \in Keys |-> 0]]_vars

\* ---------------------------------------------------------------- C23
\* C23: getAttribution(key) returns an attribution key only when tracking is
\* enabled and the key is present in the store: in every reachable state it
\* returns undefined for a key that is not in the store.
C23_AttributionOnlyForStoredKeys ==
    \A x \in Keys : getAttribution(x) # 0 => (track /\ Has(data, x))

\* ---------------------------------------------------------------- C24
\* C24: starting from an empty RangeMap, after any sequence of setInRange and
\* deleteFromRange calls with start >= 0 and length >= 1 the entries are
\* sorted by start and pairwise non-overlapping:
\* entries[i].start + entries[i].length <= entries[i+1].start.
C24_SortedNonOverlapping ==
    \A i \in 1..(Len(entries) - 1) :
        entries[i].start + entries[i].length <= entries[i + 1].start

\* ---------------------------------------------------------------- C25
\* The value the entries assign to a key: that of the entry covering it
ValueAt(es, key) ==
    LET covering == {i \in 1..Len(es) :
                        /\ es[i].start <= key
                        /\ key < es[i].start + es[i].length}
    IN IF covering = {} THEN UNDEF
       ELSE es[CHOOSE i \in covering : \A j \in covering : i <= j].value

\* The largest k <= L such that every key of [s, s+k) has the value of s
SameValuedPrefix(es, s, L) ==
    LET same == {k \in 1..L :
                    \A key \in s..(s + k - 1) : ValueAt(es, key) = ValueAt(es, s)}
    IN CHOOSE k \in same : \A j \in same : j <= k

\* C25: for every reachable RangeMap (with sorted, non-overlapping entries)
\* and every query (s, L) with L >= 1, getFromRange(s, L).value is the value
\* the map assigns to key s and getFromRange(s, L).length is the largest
\* k <= L such that every key in [s, s+k) has that value, also when
\* equal-valued entries are adjacent.
C25_QueryIsLargestPrefix ==
    C24_SortedNonOverlapping =>
        \A s \in RangeKeys :
            \A L \in 1..(MaxKey + 1 - s) :
                /\ getFromRange(entries, s, L).value = ValueAt(entries, s)
                /\ getFromRange(entries, s, L).length
                       = SameValuedPrefix(entries, s, L)

\* ---------------------------------------------------------------- C26
\* C26: for every reachable RangeMap (with sorted, non-overlapping entries)
\* and every deleteFromRange(start, length) with length >= 1, the call
\* completes without error and afterwards every key in [start, start+length)
\* maps to nothing while every key outside that range maps to the value it
\* had before, also when the range covers two or more whole entries.
C26_DeleteExactlyTheRange ==
    [][(C24_SortedNonOverlapping /\ rangeCall'.op = "delete") =>
          /\ rangeCall'.err = "none"
          /\ \A key \in RangeKeys :
                 ValueAt(entries', key) =
                     IF /\ rangeCall'.start <= key
                        /\ key < rangeCall'.start + rangeCall'.length
                     THEN UNDEF
                     ELSE ValueAt(entries, key)]_vars

\* ---------------------------------------------------------------- C27
\* The entries of es that hold some key of [start, start+length)
Overlapping(es, start, length) ==
    {i \in 1..Len(es) :
        /\ es[i].start < start + length
        /\ start < es[i].start + es[i].length}

\* What setInRange(start, length, v) promises of the step from es to after
SetOutcome(es, after, start, length, v) ==
    /\ \A i \in Overlapping(after, start, length) :
           after[i] = RangeEntry(start, length, v)
    /\ Cardinality(Overlapping(after, start, length)) = 1
    /\ \A key \in RangeKeys :
           ValueAt(after, key) =
               IF start <= key /\ key < start + length
               THEN v
               ELSE ValueAt(es, key)

\* C27: for every reachable RangeMap and every setInRange(start, length, v)
\* with length >= 1 and v not nothing, afterwards every key in
\* [start, start+length) maps to v, those keys are covered by one single
\* entry (start, length, v), and every key outside the range maps to the
\* value it had before the call.
C27_SetReplacesTheRange ==
    [][rangeCall'.op = "set" =>
          /\ rangeCall'.err = "none"
          /\ SetOutcome(entries, entries', rangeCall'.start,
                        rangeCall'.length, rangeCall'.value)]_vars

\* ---------------------------------------------------------------- C28
\* C28: adjacent equal-valued ranges are merged: after any sequence of
\* setInRange/deleteFromRange there are no two consecutive entries e1, e2
\* with e1.start + e1.length = e2.start and e1.value = e2.value.
C28_AdjacentEqualMerged ==
    \A i \in 1..(Len(entries) - 1) :
        ~ /\ entries[i].start + entries[i].length = entries[i + 1].start
          /\ entries[i].value = entries[i + 1].value

\* ---------------------------------------------------------------- C29
\* C29: each local set, delete or clear on an attached kernel issues exactly
\* one id, appends it to the tail of the op's key list (set/delete) or of the
\* pending-clear list (clear) before calling submit (the list as it stands
\* at the call of submit ends with the id), and calls submit exactly once
\* with metadata carrying that id: kind add when the key had no value before the call
\* (including a delete of an absent key), kind edit with the value held
\* before the call otherwise, and kind clear with a copy of the store as it
\* was before the clear.
C29_LocalOpSubmitted ==
    [][(attached /\ last'.act \in {"set", "delete", "clear"}) =>
          LET id == pendingMessageId + 1
              m == submitted'[Len(submitted')]
              key == last'.key
              before == IF Has(pendingKeys, key) THEN Get(pendingKeys, key)
                        ELSE <<>>
          IN /\ err' = "none"
             /\ pendingMessageId' = id
             /\ issued' = Append(issued, id)
             /\ \A held \in {Issue(Cur, m.op).atSubmit} :
                    /\ Len(held) = 1
                    /\ IF last'.act = "clear"
                       THEN held[1].pendingClearMessageIds
                                = Append(pendingClearMessageIds, id)
                       ELSE Get(held[1].pendingKeys, key) = Append(before, id)
             /\ submitted' = Append(submitted, m)
             /\ m.op.type = last'.act
             /\ m.md.pendingMessageId = id
             /\ IF last'.act = "clear"
                THEN /\ pendingClearMessageIds'
                           = Append(pendingClearMessageIds, id)
                     /\ pendingKeys' = pendingKeys
                     /\ m.md.type = "clear"
                     /\ m.md.previousMap = SomeMap(data)
                ELSE /\ pendingClearMessageIds' = pendingClearMessageIds
                     /\ m.op.key = key
                     /\ KeysOf(pendingKeys') = KeysOf(pendingKeys) \cup {key}
                     /\ \A x \in KeysOf(pendingKeys') :
                            Get(pendingKeys', x) =
                                IF x = key THEN Append(before, id)
                                ELSE Get(pendingKeys, x)
                     /\ m.md.type = IF Get(data, key) = UNDEF
                                    THEN "add" ELSE "edit"
                     /\ m.md.previousValue = Get(data, key)]_vars

\* Ops in flight of all three kinds: a set over a held value (edit), a delete
\* of an absent key (add) and a clear of a non-empty store
C29_Witness ==
    /\ attached
    /\ \E i \in 1..Len(submitted) :
           /\ submitted[i].op.type = "set"
           /\ submitted[i].md.type = "edit"
    /\ \E i \in 1..Len(submitted) :
           /\ submitted[i].op.type = "delete"
           /\ submitted[i].md.type = "add"
    /\ \E i \in 1..Len(submitted) :
           /\ submitted[i].md.type = "clear"
           /\ submitted[i].md.previousMap.entries # <<>>

\* ---------------------------------------------------------------- C30
\* C30: in every run with valid deliveries (own ops acknowledged in
\* submission order, resubmits performed in submission order), whenever the
\* ack of a local set/delete is processed while pendingClearMessageIds is
\* non-empty, the ack's pendingMessageId is strictly less than the first
\* pending-clear id, so the assertion 0x013 'Received out of order op when
\* there is an unackd clear message' never fails.  The op acknowledged next
\* is the oldest op in flight.
C30_AckBelowPendingClear ==
    /\ err # "0x013"
    /\ (/\ Idle
        /\ Len(submitted) > 0
        /\ Head(submitted).op.type \in {"set", "delete"}
        /\ Len(pendingClearMessageIds) > 0)
       => /\ isMapKeyLocalOpMetadata(Head(submitted).md)
          /\ Head(submitted).md.pendingMessageId < pendingClearMessageIds[1]

\* The ack of a local key op has just been processed under a pending clear
C30_Witness ==
    /\ last.act = "process"
    /\ last.local
    /\ last.type \in {"set", "delete"}
    /\ err = "none"
    /\ Len(pendingClearMessageIds) > 0

\* ---------------------------------------------------------------- C31
\* C31: processing a remote set whose value has an unknown kind, on a key
\* with no pending ops and with no pending clear, fails with an error and
\* leaves the store, the pending tables and the attribution map unchanged.
C31_UnknownKindChangesNothing ==
    [][(/\ last'.act = "processUnknownKind"
        /\ ~Has(pendingKeys, last'.key)
        /\ Len(pendingClearMessageIds) = 0)
       => /\ err' = "Unknown local value type"
          /\ data' = data
          /\ pendingKeys' = pendingKeys
          /\ pendingClearMessageIds' = pendingClearMessageIds
          /\ attribution' = attribution]_vars

\* ---------------------------------------------------------------- C32
\* The kernel after local op `op` is issued and at once rolled back with the
\* metadata it was submitted with
IssuedAndRolledBack(k, op) ==
    LET k1 == Issue(k, op) IN
    rollback(k1, k1.sent[1].op, k1.sent[1].md)

\* C32: after a local delete of a present key, or a local clear of a
\* non-empty store, is immediately rolled back with its metadata, the
\* iteration order of the store's keys equals the order before the op was
\* issued, also when the deleted key was not the last key in iteration order.
C32_RollbackRestoresOrder ==
    (Idle /\ attached /\ data # <<>>) =>
        /\ \A key \in KeysOf(data) :
               KeyOrder(IssuedAndRolledBack(Cur, DeleteOp(key)).data)
                   = KeyOrder(data)
        /\ KeyOrder(IssuedAndRolledBack(Cur, ClearOp).data) = KeyOrder(data)

\* ---------------------------------------------------------------- C33
\* The errors with which rollback refuses a pair of op and metadata
PairErrors ==
    {"Invalid localOpMetadata", "Cannot rollback without previous map",
     "Cannot rollback without previous value", "Unsupported op for rollback"}

\* C33 as stated: rollback accepts only the pairs (clear op, clear metadata),
\* (set op, add metadata) and (set or delete op, edit metadata with a
\* previous value); every other pair of op type and metadata kind, including
\* (delete op, add metadata), fails with an error.
C33_OnlyListedPairsAccepted ==
    [][(/\ last'.act = "rollbackPair"
        /\ ~ \/ last'.type = "clear" /\ last'.kind = "clear"
             \/ last'.type = "set" /\ last'.kind = "add"
             \/ /\ last'.type \in {"set", "delete"}
                /\ last'.kind = "edit"
                /\ last'.whole)
       => err' # "none"]_vars

\* C33, amended: rollback refuses a pair of op and metadata exactly when it
\* is none of (clear op, clear metadata with a previous map), (set or delete
\* op, add metadata) and (set or delete op, edit metadata with a previous
\* value); a delete op with add metadata, which a delete of an absent key
\* submits, is accepted.
C33_PairsAccepted ==
    [][last'.act = "rollbackPair" =>
          (err' \in PairErrors <=>
              ~ \/ /\ last'.type = "clear"
                   /\ last'.kind = "clear"
                   /\ last'.whole
                \/ last'.type \in {"set", "delete"} /\ last'.kind = "add"
                \/ /\ last'.type \in {"set", "delete"}
                   /\ last'.kind = "edit"
                   /\ last'.whole)]_vars

\* A delete op was rolled back with add metadata and without error
C33_Witness ==
    /\ last.act = "rollbackPair"
    /\ last.type = "delete"
    /\ last.kind = "add"
    /\ err = "none"

\* ---------------------------------------------------------------- C34
\* C34: if local ops are issued, remote ops are processed while they are
\* pending, and then every pending local op is rolled back in reverse
\* submission order without any of them being sequenced, the local store
\* equals the store obtained by applying only the sequenced (remote) stream;
\* remote ops that were dropped because of a pending local op or pending
\* clear are reflected after the rollback.
C34_RollbackLeavesRemoteStream ==
    (last.act = "rollback" /\ err = "none" /\ Len(submitted) = 0)
        => StoreOf(data) = StoreOf(ref)

\* ---------------------------------------------------------------- C35
\* C35: in every reachable state every key present in the store maps to a
\* defined stored value, so entries(), values() and forEach can unpack it; no
\* operation, in particular a remote clear processed while a local delete
\* has a pending id, inserts a key with an undefined stored value.
C35_StoredValuesDefined ==
    \A i \in 1..Len(data) : data[i].value # UNDEF

\* ---------------------------------------------------------------- C36
\* The ids of sequence q are strictly increasing
Increasing(q) == \A i, j \in 1..Len(q) : i < j => q[i] < q[j]

\* The last n elements of sequence q
LastOf(q, n) == {q[i] : i \in (Len(q) - n + 1)..Len(q)}

\* C36: when all pending local ops (key ops and clears) are resubmitted
\* through trySubmitMessage in their original submission order, no assertion
\* fails (no resubmit step throws), every step keeps the keys of pendingKeys,
\* the lengths of their lists and the length of the pending-clear list, and
\* after the last step every list is strictly increasing, every stored id
\* is one issued by this resubmission, and the ops in flight carry
\* increasing ids in their submission order.
C36_ResubmitAllInOrder ==
    [][last'.act = "resubmit" =>
          /\ err' = "none"
          /\ KeysOf(pendingKeys') = KeysOf(pendingKeys)
          /\ \A x \in KeysOf(pendingKeys) :
                 Len(Get(pendingKeys', x)) = Len(Get(pendingKeys, x))
          /\ Len(pendingClearMessageIds') = Len(pendingClearMessageIds)
          /\ resubmitLeft' = 0 =>
                 /\ \A x \in KeysOf(pendingKeys') :
                        Increasing(Get(pendingKeys', x))
                 /\ Increasing(pendingClearMessageIds')
                 /\ SeqToSet(AllPending(pendingKeys', pendingClearMessageIds'))
                        \subseteq LastOf(issued', Len(submitted'))
                 /\ Increasing([i \in 1..Len(submitted') |->
                                   submitted'[i].md.pendingMessageId])]_vars

\* ---------------------------------------------------------------- C37
\* C37: for every reachable RangeMap and every query (s, L) with L >= 1, the
\* length returned by getFromRange(s, L) is at least 1 and at most L, and
\* every key in [s, s + returned length) has the returned value in the map
\* (nothing when the returned value is nothing).
C37_QueryPrefixHasValue ==
    \A s \in RangeKeys :
        \A L \in 1..(MaxKey + 1 - s) :
            \A r \in {getFromRange(entries, s, L)} :
                /\ 1 <= r.length
                /\ r.length <= L
                /\ \A key \in s..(s + r.length - 1) :
                       ValueAt(entries, key) = r.value

\* ---------------------------------------------------------------- C38
\* Entry e holds the range [start, start+length) strictly inside it
StrictlyInside(e, start, length) ==
    /\ e.start < start
    /\ start + length < e.start + e.length

\* The three entries that replace entry e when (start, length, v) is set
\* strictly inside it
SplitOf(e, start, length, v) ==
    <<RangeEntry(e.start, start - e.start, e.value),
      RangeEntry(start, length, v),
      RangeEntry(start + length, e.start + e.length - start - length, e.value)>>

\* es with the entries i..j replaced by the sequence items
Replaced(es, i, j, items) ==
    SubSeq(es, 1, i - 1) \o items \o SubSeq(es, j + 1, Len(es))

OpsOf(message, topic) ==
    LET positions == [i \in 1..Len(message.contents) |-> i]
        chosen == SelectSeq(positions, LAMBDA i :
                      /\ message.contents[i].type = SequencedOperationType
                      /\ message.contents[i].topic = topic)
    IN [j \in 1..Len(chosen) |->
            [offset |-> message.offset, index |-> chosen[j]]]

\* Batches started so far: each is in flight, was checkpointed, or failed
Started == Len(batches) + Len(checkpoints) + Len(errors)

\* C39: the lambda never has two batches in flight. A batch is started only
\* when the current map is empty and the pending map is not: by handler when
\* nothing is in flight, or by the callback of the one batch that completed;
\* it carries everything pending. A message handled while a batch is being
\* written starts nothing: its operations are appended to pending.
C39_OneBatchInFlight ==
    [][/\ Len(batches') <= 1
       /\ Started' > Started =>
            /\ Started' = Started + 1
            /\ Len(batches') = 1
            /\ size(batches'[1].messages) > 0
            /\ current' = batches'[1].messages
            /\ pending' = NoMessages
            /\ \/ /\ handled' # handled
                  /\ batches = <<>>
                  /\ size(current) = 0
                  /\ \A t \in Topics :
                        batches'[1].messages[t]
                            = pending[t] \o OpsOf(handled'[Len(handled')], t)
               \/ /\ handled' = handled
                  /\ Len(batches) = 1
                  /\ checkpoints' = Append(checkpoints, batches[1].offset)
                  /\ size(pending) > 0
                  /\ batches'[1].messages = pending
       /\ (handled' # handled /\ batches # <<>>) =>
            /\ batches' = batches
            /\ current' = current
            /\ \A t \in Topics :
                  pending'[t] = pending[t] \o OpsOf(handled'[Len(handled')], t)]_vars

\* The second and third message were handled while the batch of the first
\* was being written, and went out together once it had completed
C39_Witness ==
    /\ checkpoints = <<1>>
    /\ Len(batches) = 1
    /\ batches[1].offset = 3
    /\ \E t \in Topics : \E i \in 1..Len(batches[1].messages[t]) :
          batches[1].messages[t][i].offset = 2
    /\ \E t \in Topics : \E i \in 1..Len(batches[1].messages[t]) :
          batches[1].messages[t][i].offset = 3

\* Some write of a batch in flight was rejected
Failed(bs) == \E i \in 1..Len(bs) : \E t \in Topics : bs[i].writes[t] = "rejected"

\* C40: when checkpoint(o) is called, every sequenced operation of every
\* message handled with an offset up to o is already in the collection;
\* the offsets checkpointed never decrease; a batch with a rejected write
\* ends with context.error(error, true), and from the rejection on nothing
\* is checkpointed.
C40_CheckpointAfterWrite ==
    [][/\ checkpoints' # checkpoints =>
            /\ Len(checkpoints') = Len(checkpoints) + 1
            /\ \A i \in 1..Len(handled) :
                  handled[i].offset <= checkpoints'[Len(checkpoints')] =>
                      \A t \in Topics : \A j \in 1..Len(OpsOf(handled[i], t)) :
                          OpsOf(handled[i], t)[j] \in written
            /\ \A i \in 1..Len(checkpoints) :
                  checkpoints[i] <= checkpoints'[Len(checkpoints')]
       /\ (Failed(batches) \/ errors # <<>>) => checkpoints' = checkpoints
       /\ (Failed(batches) /\ ~Failed(batches')) =>
            errors' = Append(errors, TRUE)
       /\ errors' # errors => /\ Failed(batches)
                              /\ errors' = Append(errors, TRUE)]_vars

\* The first message held no operation; the batch of the second was written
\* and checkpointed; the batch of the third failed
C40_Witness ==
    /\ Len(handled) = 3
    /\ checkpoints = <<2>>
    /\ errors = <<TRUE>>
    /\ batches = <<>>

====
